---- MODULE Spec2Model ----
(***************************************************************************)
(* State-machine model of the position-estimation and streaming-analytics  *)
(* engine: DeviceManager (src/core/device_manager.py), DwellTimeAnalyzer,  *)
(* FlowAnalyzer and TrajectoryAnalyzer (src/analysis), DataIntegration     *)
(* (src/core/data_integration.py) and the periodic tasks of               *)
(* MotionAnalysisSystem (src/main.py).                                     *)
(*                                                                         *)
(* Time is an integer number of seconds; datetime.now() reads `now`.       *)
(* Python's None is "none" for ids and zones and NoTime for timestamps.    *)
(***************************************************************************)
EXTENDS Integers, Sequences, FiniteSets, TLC

VARIABLES
    now,                    \* wall clock read by datetime.now(), seconds
    call,                   \* the last operation called, its arguments and its return value
    \* DeviceManager
    anonymize,              \* DeviceManager.anonymize (configuration)
    devices,                \* DeviceManager.devices: device_id -> Device
    mac_to_id,              \* DeviceManager.mac_to_id: mac_address -> device_id
    current_scan_devices,   \* DeviceManager.current_scan_devices
    previous_scan_devices,  \* DeviceManager.previous_scan_devices
    requested,              \* history: device_id -> the positions CallUpdatePosition gave for it
    \* DwellTimeAnalyzer
    dwell_records,          \* zone_id -> list of closed DwellRecords
    active_dwells,          \* device_id -> active DwellRecord
    zone_occupancy,         \* zone_id -> count
    zone_peak_occupancy,    \* zone_id -> <<count, time>>
    stats_cache,            \* _stats_cache: zone_id -> ZoneStatistics
    cache_timestamp,        \* _cache_timestamp
    \* FlowAnalyzer
    transitions,            \* list of FlowTransitions
    flow_matrix,            \* (from_zone, to_zone) -> count, in insertion order
    transition_durations,   \* (from_zone, to_zone) -> list of durations
    device_paths,           \* device_id -> list of zones
    device_zone_entry,      \* device_id -> (zone -> entry time), in insertion order
    updates,                \* history: device_id -> the update_device_zone calls made for it
    \* TrajectoryAnalyzer
    trajectories,           \* device_id -> Trajectory
    active_points,          \* device_id -> list of TrajectoryPoints
    \* DataIntegration
    is_connected,           \* DataIntegration.is_connected
    position_buffer,        \* DataIntegration.position_buffer
    positions_saved,        \* stats['positions_saved']
    db_errors,              \* stats['db_errors']
    sessions,               \* flusher -> the points added to its session, commit pending
    written,                \* the points committed to the database, in commit order
    accepted,               \* history: the number of save_position calls that returned True
    \* PositionCalculator
    algorithm,              \* PositionCalculator.algorithm (configuration)
    kalman_states,          \* PositionCalculator.kalman_states: key -> filter state
    filter_owner,           \* history: key -> the address whose estimate created the state
    estimates,              \* history: the number of calculate_position calls made
    \* MotionAnalysisSystem
    multi_receiver,         \* isinstance(self.scanner, MultiReceiverScanner)
    is_running,             \* MotionAnalysisSystem.is_running
    scan_task,              \* the _scanning_loop task: where it is and the batch it processes
    sightings,              \* history: mac -> the sightings begun, completed and delivered
    analysis_task           \* the _analysis_loop task: where it is and the rest of its pass

regVars == <<anonymize, devices, mac_to_id, current_scan_devices, previous_scan_devices,
            requested>>

dwellVars == <<dwell_records, active_dwells, zone_occupancy, zone_peak_occupancy,
               stats_cache, cache_timestamp>>

flowVars == <<transitions, flow_matrix, transition_durations, device_paths,
              device_zone_entry, updates>>

trajVars == <<trajectories, active_points>>

dbVars == <<is_connected, position_buffer, positions_saved, db_errors, sessions,
            written, accepted>>

calcVars == <<algorithm, kalman_states, filter_owner, estimates>>

sysVars == <<multi_receiver, is_running, scan_task, sightings, analysis_task>>

vars == <<now, call, regVars, dwellVars, flowVars, trajVars, dbVars, calcVars, sysVars>>

\* the components an operation of one component leaves alone
exceptRegistry == <<dwellVars, flowVars, trajVars, dbVars, calcVars, sysVars>>

exceptDwell == <<regVars, flowVars, trajVars, dbVars, calcVars, sysVars>>

exceptFlow == <<regVars, dwellVars, trajVars, dbVars, calcVars, sysVars>>

exceptTraj == <<regVars, dwellVars, flowVars, dbVars, calcVars, sysVars>>

exceptDb == <<regVars, dwellVars, flowVars, trajVars, calcVars, sysVars>>

components == <<regVars, dwellVars, flowVars, trajVars, dbVars, calcVars, sysVars>>

----------------------------------------------------------------------------
(* Common values *)

NoTime == 0 - 1
None == "none"

\* an absent position
NoPosition == <<>>

Macs == {"m1", "m2"}

\* hashlib.sha256(mac).hexdigest()[:16]: a fixed digest per address, distinct
\* addresses having distinct digests
Sha256 == [m \in Macs |-> IF m = "m1" THEN "h1" ELSE "h2"]

DeviceIds == Macs \cup {Sha256[m] : m \in Macs}

DaySeconds == 86400

\* Bounds of the model
MaxDetections == 3
MaxSeconds == 6
MaxRecords == 2
MaxOccupancy == 2
MaxDwellSeconds == 10
MaxUpdates == 4
MaxFlowSeconds == 3
MaxTransitions == 4
MaxPoints == 4
MaxTrajSeconds == 1
MaxPositions == 3
MaxErrors == 1
MaxSightings == 3
MaxWeeks == 1
MaxEstimates == 2
MaxRequests == 102
MaxIdles == 2

Max(a, b) == IF a >= b THEN a ELSE b

Min(a, b) == IF a <= b THEN a ELSE b

RECURSIVE SumSeq(_)
SumSeq(s) == IF s = <<>> THEN 0 ELSE Head(s) + SumSeq(Tail(s))

\* the clock advances by d while the time within the period stays below the limit
TickBy(d, period, limit) == (now % period) + d <= limit /\ now' = now + d

----------------------------------------------------------------------------
(* DeviceManager *)

\* the grace period of cleanup_undetected_devices, seconds
GracePeriod == 5

\* the retention period cleanup_old_devices is called with (the maintenance
\* loop passes 7), days
CleanupDays == {7}

_anonymize_mac(mac) == IF ~anonymize THEN mac ELSE Sha256[mac]

\* Device(...) as constructed on first registration; hw is the address whose
\* sighting created the record (the code keeps it in mac_address only when
\* anonymize is off)
NewDevice(device_id, mac) ==
    [device_id |-> device_id,
     mac_address |-> IF ~anonymize THEN mac ELSE "",
     hw |-> mac,
     first_seen |-> now,
     last_seen |-> now,
     total_detections |-> 1,
     zones_visited |-> {},
     current_zone |-> None,
     current_position |-> NoPosition,
     position_history |-> <<>>]

\* the DeviceManager state as one value, and its installation as the next state
Registry ==
    [devices |-> devices, mac_to_id |-> mac_to_id,
     current_scan_devices |-> current_scan_devices,
     previous_scan_devices |-> previous_scan_devices]

SetRegistry(R) ==
    /\ devices' = R.devices
    /\ mac_to_id' = R.mac_to_id
    /\ current_scan_devices' = R.current_scan_devices
    /\ previous_scan_devices' = R.previous_scan_devices
    /\ UNCHANGED <<anonymize, requested>>

\* dict[key] = value
Put(f, key, value) == [k \in DOMAIN f \cup {key} |-> IF k = key THEN value ELSE f[k]]

\* the elements of a finite set as a list
RECURSIVE Ordered(_)
Ordered(S) == IF S = {} THEN <<>> ELSE LET x == CHOOSE x \in S : TRUE IN <<x>> \o Ordered(S \ {x})

\* the elements of a list
Range(s) == {s[i] : i \in 1..Len(s)}

\* the dict without the given keys
Drop(f, keys) == [k \in DOMAIN f \ keys |-> f[k]]

\* device.last_seen = datetime.now(); device.total_detections += 1
Touch(devs, device_id) ==
    [devs EXCEPT ![device_id].last_seen = now,
                 ![device_id].total_detections = @ + 1]

\* the variant of register_device that files a sighting of an address whose
\* digest is already registered under the raw address instead of updating
register_device_nodedup(R, mac, check_duplicate) ==
    LET device_id == _anonymize_mac(mac)
        key == IF device_id \in DOMAIN R.devices THEN mac ELSE device_id IN
    IF key \in DOMAIN R.devices
    THEN [st |-> [R EXCEPT !.devices = Touch(R.devices, key)], ret |-> None]
    ELSE [st |-> [R EXCEPT !.devices = Put(R.devices, key, NewDevice(key, mac)),
                           !.mac_to_id = Put(R.mac_to_id, mac, key),
                           !.current_scan_devices = @ \cup {key}],
          ret |-> key]

\* register_device: the state after the call and the value returned, the id
\* of the new Device, None, or "KeyError" when the call raises
register_device(R, mac, check_duplicate) ==
    LET device_id == _anonymize_mac(mac) IN
    IF check_duplicate /\ device_id \in R.current_scan_devices
    THEN \* already processed in the current scan
         [st |-> IF device_id \in DOMAIN R.devices
                 THEN [R EXCEPT !.devices = Touch(R.devices, device_id)]
                 ELSE R,
          ret |-> None]
    ELSE IF mac \in DOMAIN R.mac_to_id
    THEN IF R.mac_to_id[mac] = device_id
         THEN IF device_id \in DOMAIN R.devices
              THEN [st |-> [R EXCEPT !.devices = Touch(R.devices, device_id),
                                     !.current_scan_devices = @ \cup {device_id}],
                    ret |-> None]
              ELSE \* self.devices[device_id] raises KeyError
                   [st |-> R, ret |-> "KeyError"]
         ELSE \* duplicate address with a different id: not registered
              [st |-> R, ret |-> None]
    ELSE IF device_id \in DOMAIN R.devices
    THEN [st |-> [R EXCEPT !.devices = Touch(R.devices, device_id),
                           !.current_scan_devices = @ \cup {device_id}],
          ret |-> None]
    ELSE \* new device
         [st |-> [R EXCEPT !.devices = Put(R.devices, device_id, NewDevice(device_id, mac)),
                           !.mac_to_id = Put(R.mac_to_id, mac, device_id),
                           !.current_scan_devices = @ \cup {device_id}],
          ret |-> device_id]

start_new_scan(R) ==
    [R EXCEPT !.previous_scan_devices = R.current_scan_devices,
              !.current_scan_devices = {}]

\* the ids cleanup_undetected_devices removes
Undetected(R) ==
    {d \in (R.previous_scan_devices \ R.current_scan_devices) \cap DOMAIN R.devices :
        now - R.devices[d].last_seen > GracePeriod}

\* the mapping deleted for a removed id: the first address mapped to it
MacsOf(R, ids) ==
    {m \in DOMAIN R.mac_to_id :
        /\ R.mac_to_id[m] \in ids
        /\ m = CHOOSE x \in DOMAIN R.mac_to_id : R.mac_to_id[x] = R.mac_to_id[m]}

\* a cleanup that does not wait for the grace period
cleanup_undetected_devices_nograce(R) ==
    LET removed == (R.previous_scan_devices \ R.current_scan_devices) \cap DOMAIN R.devices IN
    [st |-> [R EXCEPT !.mac_to_id = Drop(R.mac_to_id, MacsOf(R, removed)),
                      !.devices = Drop(R.devices, removed)],
     ret |-> removed]

cleanup_undetected_devices(R) ==
    LET removed == Undetected(R) IN
    [st |-> [R EXCEPT !.mac_to_id = Drop(R.mac_to_id, MacsOf(R, removed)),
                      !.devices = Drop(R.devices, removed)],
     ret |-> removed]

\* the ids cleanup_old_devices(days) removes
OldDevices(R, days) ==
    {d \in DOMAIN R.devices : R.devices[d].last_seen < now - days * DaySeconds}

cleanup_old_devices(R, days) ==
    LET removed == OldDevices(R, days) IN
    [st |-> [R EXCEPT !.mac_to_id = Drop(R.mac_to_id, {R.devices[d].mac_address : d \in removed}),
                      !.devices = Drop(R.devices, removed)],
     ret |-> Cardinality(removed)]

\* total_detections is capped to keep the model finite
CanTouch(mac) ==
    \A d \in DOMAIN devices : devices[d].hw = mac => devices[d].total_detections < MaxDetections

----------------------------------------------------------------------------
(* DwellTimeAnalyzer *)

Zones == {"A", "B"}

AnalyzerDevices == {"h1", "h2"}

\* the devices and zones of the statistics runs
StatsDevices == {"h1", "h2"}

StatsZones == {"A"}

\* config.get('min_duration', 10.0)
min_dwell_time == 10

\* the lifetime of the statistics cache, seconds
CacheSeconds == 60

Dwell ==
    [dwell_records |-> dwell_records, active_dwells |-> active_dwells,
     zone_occupancy |-> zone_occupancy, zone_peak_occupancy |-> zone_peak_occupancy,
     stats_cache |-> stats_cache, cache_timestamp |-> cache_timestamp]

SetDwell(D) ==
    /\ dwell_records' = D.dwell_records
    /\ active_dwells' = D.active_dwells
    /\ zone_occupancy' = D.zone_occupancy
    /\ zone_peak_occupancy' = D.zone_peak_occupancy
    /\ stats_cache' = D.stats_cache
    /\ cache_timestamp' = D.cache_timestamp

DwellRecord(device_id, zone_id, timestamp) ==
    [device_id |-> device_id, zone_id |-> zone_id, entry_time |-> timestamp,
     exit_time |-> NoTime, duration |-> 0, is_active |-> TRUE]

\* a cache invalidation that leaves the cached statistics in place
_invalidate_cache_kept(D) == D

_invalidate_cache(D) == [D EXCEPT !.stats_cache = <<>>, !.cache_timestamp = NoTime]

\* an exit that stores the closed record whatever its duration
exit_zone_keepshort(D, device_id, zone_id, timestamp) ==
    IF device_id \notin DOMAIN D.active_dwells
    THEN [st |-> D, ret |-> <<>>]
    ELSE LET record == D.active_dwells[device_id]
             closed == [record EXCEPT !.exit_time = timestamp,
                                      !.duration = timestamp - record.entry_time,
                                      !.is_active = FALSE]
             D1 == [D EXCEPT
                      !.dwell_records[record.zone_id] = Append(@, closed),
                      !.active_dwells = Drop(D.active_dwells, {device_id}),
                      !.zone_occupancy[zone_id] = Max(0, @ - 1)]
         IN [st |-> _invalidate_cache(D1),
             ret |-> <<closed>>]

\* an exit that stores the closed record and leaves the dwell active
exit_zone_stillactive(D, device_id, zone_id, timestamp) ==
    IF device_id \notin DOMAIN D.active_dwells
    THEN [st |-> D, ret |-> <<>>]
    ELSE LET record == D.active_dwells[device_id]
             closed == [record EXCEPT !.exit_time = timestamp,
                                      !.duration = timestamp - record.entry_time,
                                      !.is_active = FALSE]
             kept == closed.duration >= min_dwell_time
             D1 == [D EXCEPT
                      !.dwell_records[record.zone_id] = IF kept THEN Append(@, closed) ELSE @,
                      !.zone_occupancy[zone_id] = Max(0, @ - 1)]
         IN [st |-> _invalidate_cache(D1),
             ret |-> IF kept THEN <<closed>> ELSE <<>>]

\* exit_zone: the state after the call and the record returned (<<>> for None)
exit_zone(D, device_id, zone_id, timestamp) ==
    IF device_id \notin DOMAIN D.active_dwells
    THEN [st |-> D, ret |-> <<>>]
    ELSE LET record == D.active_dwells[device_id]
             closed == [record EXCEPT !.exit_time = timestamp,
                                      !.duration = timestamp - record.entry_time,
                                      !.is_active = FALSE]
             kept == closed.duration >= min_dwell_time
             D1 == [D EXCEPT
                      !.dwell_records[record.zone_id] = IF kept THEN Append(@, closed) ELSE @,
                      !.active_dwells = Drop(D.active_dwells, {device_id}),
                      !.zone_occupancy[zone_id] = Max(0, @ - 1)]
         IN [st |-> _invalidate_cache(D1),
             ret |-> IF kept THEN <<closed>> ELSE <<>>]

\* an entry that opens the new record without closing the active one
enter_zone_noexit(D, device_id, zone_id, timestamp) ==
    LET current_occupancy == D.zone_occupancy[zone_id] + 1
    IN [D EXCEPT
          !.active_dwells = Put(D.active_dwells, device_id,
                                DwellRecord(device_id, zone_id, timestamp)),
          !.zone_occupancy[zone_id] = current_occupancy,
          !.zone_peak_occupancy =
              IF zone_id \notin DOMAIN @ \/ current_occupancy > @[zone_id][1]
              THEN Put(@, zone_id, <<current_occupancy, timestamp>>)
              ELSE @]

enter_zone(D, device_id, zone_id, timestamp) ==
    LET D1 == IF device_id \in DOMAIN D.active_dwells
              THEN exit_zone(D, device_id, D.active_dwells[device_id].zone_id, timestamp).st
              ELSE D
        current_occupancy == D1.zone_occupancy[zone_id] + 1
    IN [D1 EXCEPT
          !.active_dwells = Put(D1.active_dwells, device_id,
                                DwellRecord(device_id, zone_id, timestamp)),
          !.zone_occupancy[zone_id] = current_occupancy,
          !.zone_peak_occupancy =
              IF zone_id \notin DOMAIN @ \/ current_occupancy > @[zone_id][1]
              THEN Put(@, zone_id, <<current_occupancy, timestamp>>)
              ELSE @]

\* an update that leaves and re-enters the zone the device is already in
dwell_update_position_reenter(D, device_id, zone_id, timestamp) ==
    IF device_id \in DOMAIN D.active_dwells
    THEN LET current_zone == D.active_dwells[device_id].zone_id
             D1 == exit_zone(D, device_id, current_zone, timestamp).st
         IN IF zone_id # None THEN enter_zone(D1, device_id, zone_id, timestamp) ELSE D1
    ELSE IF zone_id # None THEN enter_zone(D, device_id, zone_id, timestamp)
    ELSE D

\* DwellTimeAnalyzer.update_position; zone_id may be None
dwell_update_position(D, device_id, zone_id, timestamp) ==
    IF device_id \in DOMAIN D.active_dwells
    THEN LET current_zone == D.active_dwells[device_id].zone_id IN
         IF zone_id # current_zone
         THEN LET D1 == exit_zone(D, device_id, current_zone, timestamp).st IN
              IF zone_id # None THEN enter_zone(D1, device_id, zone_id, timestamp) ELSE D1
         ELSE D
    ELSE IF zone_id # None THEN enter_zone(D, device_id, zone_id, timestamp)
    ELSE D

\* the k-th smallest element of a non-empty list of numbers
Kth(durations, k) ==
    LET n == Len(durations) IN
    CHOOSE x \in {durations[i] : i \in 1..n} :
        /\ Cardinality({i \in 1..n : durations[i] < x}) < k
        /\ Cardinality({i \in 1..n : durations[i] <= x}) >= k

\* twice the median of a non-empty list of numbers (np.median)
Median2(durations) ==
    LET n == Len(durations) IN
    IF n % 2 = 1 THEN 2 * Kth(durations, (n + 1) \div 2)
    ELSE Kth(durations, n \div 2) + Kth(durations, n \div 2 + 1)

\* ZoneStatistics computed from the given records. The mean is the pair
\* <<sum, count>> and the median is doubled; the standard deviation, a function
\* of the durations whatever their order, is represented by their sorted list
ZoneStatistics(D, zone_id, records) ==
    LET n == Len(records)
        durations == [i \in 1..n |-> records[i].duration]
    IN [zone_id |-> zone_id,
        total_visits |-> n,
        unique_visitors |-> Cardinality({records[i].device_id : i \in 1..n}),
        avg_duration |-> <<SumSeq(durations), n>>,
        median_duration |-> Median2(durations),
        max_duration |-> Kth(durations, n),
        min_duration |-> Kth(durations, 1),
        std_duration |-> [k \in 1..n |-> Kth(durations, k)],
        current_occupancy |-> D.zone_occupancy[zone_id],
        peak_occupancy |-> IF zone_id \in DOMAIN D.zone_peak_occupancy
                           THEN D.zone_peak_occupancy[zone_id][1] ELSE 0,
        peak_time |-> IF zone_id \in DOMAIN D.zone_peak_occupancy
                      THEN D.zone_peak_occupancy[zone_id][2] ELSE NoTime]

\* (datetime.now() - self._cache_timestamp).seconds < 60: timedelta.seconds is
\* the seconds component, the whole days being dropped
CacheFresh(D) ==
    /\ D.cache_timestamp # NoTime
    /\ (now - D.cache_timestamp) % DaySeconds < CacheSeconds

\* the records of the zone within the time range (NoTime for an absent limit)
RangeRecords(D, zone_id, start_time, end_time) ==
    LET InRange(r) == /\ ~(start_time # NoTime /\ r.entry_time < start_time)
                      /\ ~(end_time # NoTime /\ r.entry_time > end_time)
    IN SelectSeq(D.dwell_records[zone_id], InRange)

\* get_zone_statistics: the state after the call, the statistics returned
\* (<<>> for None) and whether they came from the cache
get_zone_statistics(D, zone_id, start_time, end_time) ==
    LET ranged == start_time # NoTime \/ end_time # NoTime
        records == RangeRecords(D, zone_id, start_time, end_time)
    IN IF ~ranged /\ zone_id \in DOMAIN D.stats_cache /\ CacheFresh(D)
       THEN [st |-> D, ret |-> <<D.stats_cache[zone_id]>>, hit |-> TRUE]
       ELSE IF records = <<>>
       THEN [st |-> D, ret |-> <<>>, hit |-> FALSE]
       ELSE LET stats == ZoneStatistics(D, zone_id, records) IN
            [st |-> IF ~ranged
                    THEN [D EXCEPT !.stats_cache = Put(@, zone_id, stats),
                                   !.cache_timestamp = now]
                    ELSE D,
             ret |-> <<stats>>,
             hit |-> FALSE]

----------------------------------------------------------------------------
(* FlowAnalyzer *)

FlowZones == {"A", "B", "C", "D", "E"}

\* duration=None
NoDuration == NoTime

\* the transition time assumed when the device has no entry time for the zone
DefaultDuration == 5

\* A dict whose iteration order matters is the list of its <<key, value>>
\* items in insertion order
Keys(od) == {od[i][1] : i \in 1..Len(od)}

Lookup(od, key) == od[CHOOSE i \in 1..Len(od) : od[i][1] = key][2]

\* od[key] = value: a present key keeps its place
Store(od, key, value) ==
    IF key \in Keys(od)
    THEN [i \in 1..Len(od) |-> IF od[i][1] = key THEN <<key, value>> ELSE od[i]]
    ELSE Append(od, <<key, value>>)

\* del od[key]
Remove(od, key) ==
    LET Other(e) == e[1] # key IN SelectSeq(od, Other)

Flow ==
    [transitions |-> transitions, flow_matrix |-> flow_matrix,
     transition_durations |-> transition_durations, device_paths |-> device_paths,
     device_zone_entry |-> device_zone_entry]

SetFlow(F) ==
    /\ transitions' = F.transitions
    /\ flow_matrix' = F.flow_matrix
    /\ transition_durations' = F.transition_durations
    /\ device_paths' = F.device_paths
    /\ device_zone_entry' = F.device_zone_entry

FlowTransition(from_zone, to_zone, device_id, timestamp, duration) ==
    [from_zone |-> from_zone, to_zone |-> to_zone, device_id |-> device_id,
     timestamp |-> timestamp, duration |-> duration]

_calculate_transition_duration(F, device_id, from_zone, to_zone, timestamp) ==
    LET device_zones == IF device_id \in DOMAIN F.device_zone_entry
                        THEN F.device_zone_entry[device_id] ELSE <<>>
    IN IF from_zone \in Keys(device_zones)
       THEN Max(0, timestamp - Lookup(device_zones, from_zone))
       ELSE DefaultDuration

\* an add_transition that counts the transition and keeps no duration sample
add_transition_nosample(F, device_id, from_zone, to_zone, timestamp, duration) ==
    IF from_zone = to_zone
    THEN F
    ELSE LET d == IF duration = NoDuration
                  THEN _calculate_transition_duration(F, device_id, from_zone,
                                                      to_zone, timestamp)
                  ELSE duration
             key == <<from_zone, to_zone>>
             count == IF key \in Keys(F.flow_matrix) THEN Lookup(F.flow_matrix, key) ELSE 0
             path == IF device_id \in DOMAIN F.device_paths
                     THEN F.device_paths[device_id] ELSE <<>>
             path1 == IF path = <<>> \/ path[Len(path)] # from_zone
                      THEN Append(path, from_zone) ELSE path
         IN [transitions |->
                 Append(F.transitions,
                        FlowTransition(from_zone, to_zone, device_id, timestamp, d)),
             flow_matrix |-> Store(F.flow_matrix, key, count + 1),
             transition_durations |-> F.transition_durations,
             device_paths |-> Put(F.device_paths, device_id, Append(path1, to_zone)),
             device_zone_entry |-> F.device_zone_entry]

\* an add_transition that also records a transition from a zone to itself
add_transition_self(F, device_id, from_zone, to_zone, timestamp, duration) ==
    LET d == IF duration = NoDuration
             THEN _calculate_transition_duration(F, device_id, from_zone, to_zone, timestamp)
             ELSE duration
        key == <<from_zone, to_zone>>
        count == IF key \in Keys(F.flow_matrix) THEN Lookup(F.flow_matrix, key) ELSE 0
        durations == IF key \in DOMAIN F.transition_durations
                     THEN F.transition_durations[key] ELSE <<>>
        path == IF device_id \in DOMAIN F.device_paths
                THEN F.device_paths[device_id] ELSE <<>>
        path1 == IF path = <<>> \/ path[Len(path)] # from_zone
                 THEN Append(path, from_zone) ELSE path
    IN [transitions |->
            Append(F.transitions,
                   FlowTransition(from_zone, to_zone, device_id, timestamp, d)),
        flow_matrix |-> Store(F.flow_matrix, key, count + 1),
        transition_durations |-> Put(F.transition_durations, key, Append(durations, d)),
        device_paths |-> Put(F.device_paths, device_id, Append(path1, to_zone)),
        device_zone_entry |-> F.device_zone_entry]

add_transition(F, device_id, from_zone, to_zone, timestamp, duration) ==
    IF from_zone = to_zone
    THEN F
    ELSE LET d == IF duration = NoDuration
                  THEN _calculate_transition_duration(F, device_id, from_zone,
                                                      to_zone, timestamp)
                  ELSE duration
             key == <<from_zone, to_zone>>
             count == IF key \in Keys(F.flow_matrix) THEN Lookup(F.flow_matrix, key) ELSE 0
             durations == IF key \in DOMAIN F.transition_durations
                          THEN F.transition_durations[key] ELSE <<>>
             path == IF device_id \in DOMAIN F.device_paths
                     THEN F.device_paths[device_id] ELSE <<>>
             path1 == IF path = <<>> \/ path[Len(path)] # from_zone
                      THEN Append(path, from_zone) ELSE path
         IN [transitions |->
                 Append(F.transitions,
                        FlowTransition(from_zone, to_zone, device_id, timestamp, d)),
             flow_matrix |-> Store(F.flow_matrix, key, count + 1),
             transition_durations |-> Put(F.transition_durations, key, Append(durations, d)),
             device_paths |-> Put(F.device_paths, device_id, Append(path1, to_zone)),
             device_zone_entry |-> F.device_zone_entry]

\* the variant of update_device_zone that does not record the entry time of
\* the zone the device is now in
update_device_zone_noentry(F, device_id, zone_id, timestamp) ==
    IF zone_id = None
    THEN F
    ELSE LET device_zones == IF device_id \in DOMAIN F.device_zone_entry
                             THEN F.device_zone_entry[device_id] ELSE <<>>
             others == Remove(device_zones, zone_id)
             found == others # <<>>
             kept == IF found THEN Remove(device_zones, others[1][1]) ELSE device_zones
             F1 == [F EXCEPT !.device_zone_entry = Put(F.device_zone_entry, device_id, kept)]
         IN IF found
            THEN add_transition(F1, device_id, others[1][1], zone_id, timestamp,
                                timestamp - others[1][2])
            ELSE F1

\* update_device_zone; a zone_id of None is not truthy
update_device_zone(F, device_id, zone_id, timestamp) ==
    IF zone_id = None
    THEN F
    ELSE LET device_zones == IF device_id \in DOMAIN F.device_zone_entry
                             THEN F.device_zone_entry[device_id] ELSE <<>>
             \* the first zone of the dict other than zone_id, if any
             others == Remove(device_zones, zone_id)
             found == others # <<>>
             previous_zone == IF found THEN others[1][1] ELSE None
             previous_entry_time == IF found THEN others[1][2] ELSE NoTime
             kept == IF found THEN Remove(device_zones, previous_zone) ELSE device_zones
             F1 == [F EXCEPT !.device_zone_entry =
                        Put(F.device_zone_entry, device_id,
                            Store(kept, zone_id, timestamp))]
         IN IF found
            THEN add_transition(F1, device_id, previous_zone, zone_id, timestamp,
                                timestamp - previous_entry_time)
            ELSE F1

\* the entries of flow_matrix that leave current_zone, in dict order
OutgoingFlows(F, current_zone) ==
    LET From(e) == e[1][1] = current_zone IN SelectSeq(F.flow_matrix, From)

\* list.sort(key=probability, reverse=True): descending and stable; the
\* probabilities share their denominator, so the counts order them
SortByCount(flows) ==
    LET n == Len(flows)
        Rank(i) == Cardinality({j \in 1..n : flows[j][2] > flows[i][2]})
                   + Cardinality({j \in 1..i : flows[j][2] = flows[i][2]})
    IN [r \in 1..n |-> flows[CHOOSE i \in 1..n : Rank(i) = r]]

\* predict_next_zone: the list of (zone, probability), a probability
\* count / total being the pair <<count, total>>
predict_next_zone(F, current_zone, n_predictions) ==
    LET flows == OutgoingFlows(F, current_zone)
        total_transitions == SumSeq([i \in 1..Len(flows) |-> flows[i][2]])
        sorted == SortByCount(flows)
    IN IF total_transitions = 0
       THEN <<>>
       ELSE [i \in 1..Min(n_predictions, Len(sorted)) |->
                <<sorted[i][1][2], <<sorted[i][2], total_transitions>>>>]

----------------------------------------------------------------------------
(* TrajectoryAnalyzer *)

\* Positions are pairs of integers. The sampled coordinates are multiples of
\* a power of two, which keeps the moving averages of the runs exact

\* config.get('smoothing_window', 5) and config.get('min_points', 10): the
\* runs configure a smaller window and minimum
smoothing_window == 2
min_points == 2

\* the positions sampled: one in each zone of a layout of two zones and one
\* outside both
Positions == {<<0, 0>>, <<64, 0>>, <<128, 0>>}

\* PositionCalculator.get_zone_id for that layout
get_zone_id(position) ==
    IF position[1] < 64 THEN "A" ELSE IF position[1] < 128 THEN "B" ELSE None

\* confidence: float = 1.0, in percent
DefaultConfidence == 100

Abs(x) == IF x < 0 THEN 0 - x ELSE x

\* np.sqrt of a sum of two squares, rounded down
Hypot(dx, dy) ==
    CHOOSE r \in 0..(Abs(dx) + Abs(dy)) :
        r * r <= dx * dx + dy * dy /\ (r + 1) * (r + 1) > dx * dx + dy * dy

Traj == [trajectories |-> trajectories, active_points |-> active_points]

SetTraj(T) ==
    /\ trajectories' = T.trajectories
    /\ active_points' = T.active_points

\* speed and direction are <<>> while None; a speed distance / time_diff is
\* the pair <<distance, time_diff>>, a direction arctan2(dy, dx) the pair <<dy, dx>>
TrajectoryPoint(device_id, timestamp, position, zone_id, confidence) ==
    [device_id |-> device_id, timestamp |-> timestamp, position |-> position,
     zone_id |-> zone_id, confidence |-> confidence, speed |-> <<>>, direction |-> <<>>]

_calculate_motion_attributes(points) ==
    LET n == Len(points) IN
    IF n < 2
    THEN points
    ELSE LET p1 == points[n - 1]
             p2 == points[n]
             dx == p2.position[1] - p1.position[1]
             dy == p2.position[2] - p1.position[2]
             time_diff == p2.timestamp - p1.timestamp
         IN IF time_diff > 0
            THEN [points EXCEPT ![n].speed = <<Hypot(dx, dy), time_diff>>,
                                ![n].direction = <<dy, dx>>]
            ELSE points

\* the position of the latest point becomes the mean of the window
_smooth_trajectory(points) ==
    LET n == Len(points)
        w == smoothing_window
    IN IF n < w
       THEN points
       ELSE LET xs == [i \in 1..w |-> points[n - w + i].position[1]]
                ys == [i \in 1..w |-> points[n - w + i].position[2]]
            IN [points EXCEPT ![n].position = <<SumSeq(xs) \div w, SumSeq(ys) \div w>>]

\* an add_position whose smoothing moves every point of the window to the mean
add_position_resmoothed(T, device_id, position, timestamp, zone_id, confidence) ==
    LET buffered == IF device_id \in DOMAIN T.active_points
                    THEN T.active_points[device_id] ELSE <<>>
        appended == Append(buffered,
                           TrajectoryPoint(device_id, timestamp, position, zone_id, confidence))
        moved == IF Len(appended) > 1 THEN _calculate_motion_attributes(appended)
                 ELSE appended
        n == Len(moved)
        smoothed == IF n >= smoothing_window
                    THEN [i \in 1..n |->
                             IF i > n - smoothing_window
                             THEN [moved[i] EXCEPT !.position =
                                       _smooth_trajectory(moved)[n].position]
                             ELSE moved[i]]
                    ELSE moved
    IN [T EXCEPT !.active_points = Put(T.active_points, device_id, smoothed)]

\* an add_position that appends the point to the stored trajectory as well
add_position_shared(T, device_id, position, timestamp, zone_id, confidence) ==
    LET buffered == IF device_id \in DOMAIN T.active_points
                    THEN T.active_points[device_id] ELSE <<>>
        point == TrajectoryPoint(device_id, timestamp, position, zone_id, confidence)
        appended == Append(buffered, point)
        moved == IF Len(appended) > 1 THEN _calculate_motion_attributes(appended)
                 ELSE appended
        smoothed == IF Len(moved) >= smoothing_window THEN _smooth_trajectory(moved)
                    ELSE moved
    IN [T EXCEPT !.active_points = Put(T.active_points, device_id, smoothed),
                 !.trajectories =
                     IF device_id \in DOMAIN T.trajectories
                     THEN [@ EXCEPT ![device_id].points = Append(@, point)]
                     ELSE @]

add_position(T, device_id, position, timestamp, zone_id, confidence) ==
    LET buffered == IF device_id \in DOMAIN T.active_points
                    THEN T.active_points[device_id] ELSE <<>>
        appended == Append(buffered,
                           TrajectoryPoint(device_id, timestamp, position, zone_id, confidence))
        moved == IF Len(appended) > 1 THEN _calculate_motion_attributes(appended)
                 ELSE appended
        smoothed == IF Len(moved) >= smoothing_window THEN _smooth_trajectory(moved)
                    ELSE moved
    IN [T EXCEPT !.active_points = Put(T.active_points, device_id, smoothed)]

\* the loop over the points that collects zones_visited and dwell_times
RECURSIVE ZoneWalk(_, _, _)
ZoneWalk(points, i, acc) ==
    IF i > Len(points)
    THEN acc
    ELSE LET point == points[i] IN
         IF point.zone_id # acc.current_zone
         THEN ZoneWalk(points, i + 1,
                [zones_visited |->
                     IF point.zone_id # None /\ point.zone_id \notin Range(acc.zones_visited)
                     THEN Append(acc.zones_visited, point.zone_id)
                     ELSE acc.zones_visited,
                 dwell_times |->
                     IF acc.current_zone # None
                     THEN Put(acc.dwell_times, acc.current_zone,
                              (IF acc.current_zone \in DOMAIN acc.dwell_times
                               THEN acc.dwell_times[acc.current_zone] ELSE 0)
                              + (point.timestamp - acc.zone_entry_time))
                     ELSE acc.dwell_times,
                 current_zone |-> point.zone_id,
                 zone_entry_time |-> point.timestamp])
         ELSE ZoneWalk(points, i + 1, acc)

\* Trajectory(...) with the statistics of _calculate_trajectory_stats;
\* avg_speed and max_speed are the mean and the maximum of the list speeds
Trajectory(device_id, points) ==
    LET n == Len(points)
        walk == ZoneWalk(points, 1, [zones_visited |-> <<>>, dwell_times |-> <<>>,
                                     current_zone |-> None, zone_entry_time |-> NoTime])
        moving == LET HasSpeed(p) == p.speed # <<>> IN SelectSeq(Tail(points), HasSpeed)
    IN [device_id |-> device_id,
        start_time |-> points[1].timestamp,
        end_time |-> points[n].timestamp,
        points |-> points,
        total_distance |->
            SumSeq([i \in 1..(n - 1) |->
                       Hypot(points[i + 1].position[1] - points[i].position[1],
                             points[i + 1].position[2] - points[i].position[2])]),
        speeds |-> [i \in 1..Len(moving) |-> moving[i].speed],
        zones_visited |-> walk.zones_visited,
        dwell_times |->
            IF walk.current_zone # None
            THEN Put(walk.dwell_times, walk.current_zone,
                     (IF walk.current_zone \in DOMAIN walk.dwell_times
                      THEN walk.dwell_times[walk.current_zone] ELSE 0)
                     + (points[n].timestamp - walk.zone_entry_time))
            ELSE walk.dwell_times]

\* the variant of finalize_trajectory that wants more than min_points points
finalize_trajectory_strict(T, device_id) ==
    IF device_id \notin DOMAIN T.active_points
    THEN [st |-> T, ret |-> <<>>]
    ELSE LET points == T.active_points[device_id] IN
         IF Len(points) <= min_points
         THEN [st |-> T, ret |-> <<>>]
         ELSE LET trajectory == Trajectory(device_id, points) IN
              [st |-> [trajectories |-> Put(T.trajectories, device_id, trajectory),
                       active_points |-> Drop(T.active_points, {device_id})],
               ret |-> <<trajectory>>]

\* finalize_trajectory: the state after the call and the trajectory returned
\* (<<>> for None)
finalize_trajectory(T, device_id) ==
    IF device_id \notin DOMAIN T.active_points
    THEN [st |-> T, ret |-> <<>>]
    ELSE LET points == T.active_points[device_id] IN
         IF Len(points) < min_points
         THEN [st |-> T, ret |-> <<>>]
         ELSE LET trajectory == Trajectory(device_id, points) IN
              [st |-> [trajectories |-> Put(T.trajectories, device_id, trajectory),
                       active_points |-> Drop(T.active_points, {device_id})],
               ret |-> <<trajectory>>]

----------------------------------------------------------------------------
(* DataIntegration *)

\* config.get('batch_size', 100): the runs configure a smaller batch
batch_size == 2

\* the callers of flush_positions: the periodic_flush task and save_position
Flushers == {"periodic_flush", "save_position"}

Db ==
    [is_connected |-> is_connected, position_buffer |-> position_buffer,
     positions_saved |-> positions_saved, db_errors |-> db_errors,
     sessions |-> sessions, written |-> written, accepted |-> accepted]

SetDb(B) ==
    /\ position_buffer' = B.position_buffer
    /\ positions_saved' = B.positions_saved
    /\ db_errors' = B.db_errors
    /\ sessions' = B.sessions
    /\ written' = B.written
    /\ accepted' = B.accepted
    /\ UNCHANGED is_connected

\* position_data; seq numbers the accepted positions
PositionData(device_id, position, zone_id, confidence, timestamp, seq) ==
    [device_id |-> device_id, x |-> position[1], y |-> position[2], zone_id |-> zone_id,
     confidence |-> confidence, timestamp |-> timestamp, seq |-> seq]

\* flush_positions up to its await of session.commit(): the session is
\* opened and every buffered point is added to it
flush_positions_begin(B, flusher) ==
    IF B.position_buffer = <<>> \/ ~B.is_connected
    THEN B
    ELSE [B EXCEPT !.sessions = Put(B.sessions, flusher, B.position_buffer)]

\* flush_positions from the completion of session.commit(): the points of
\* the session are in the database; the buffer, as it is now, is counted
\* and cleared
flush_positions_commit(B, flusher) ==
    [B EXCEPT !.written = B.written \o B.sessions[flusher],
              !.positions_saved = @ + Len(B.position_buffer),
              !.position_buffer = <<>>,
              !.sessions = Drop(B.sessions, {flusher})]

\* flush_positions when session.commit() raises: the session is rolled back
flush_positions_fail(B, flusher) ==
    [B EXCEPT !.db_errors = @ + 1,
              !.sessions = Drop(B.sessions, {flusher})]

\* save_position up to its return or to the await inside flush_positions
save_position(B, device_id, position, zone_id, confidence, timestamp) ==
    IF ~B.is_connected
    THEN [st |-> B, ret |-> FALSE]
    ELSE LET position_data == PositionData(device_id, position, zone_id, confidence,
                                           timestamp, B.accepted + 1)
             B1 == [B EXCEPT !.position_buffer = Append(@, position_data),
                             !.accepted = @ + 1]
         IN [st |-> IF Len(B1.position_buffer) >= batch_size
                    THEN flush_positions_begin(B1, "save_position")
                    ELSE B1,
             ret |-> TRUE]

----------------------------------------------------------------------------
(* MotionAnalysisSystem *)

\* the length position_history is cut back to
HistoryLimit == 100

\* get_active_devices(timeout_minutes=5)
ActiveMinutes == 5

\* update_position keeping the oldest entries of the history
manager_update_position_oldest(R, device_id, position, zone_id) ==
    IF device_id \notin DOMAIN R.devices
    THEN R
    ELSE LET history == Append(R.devices[device_id].position_history, <<now, position>>)
             n == Len(history)
         IN [R EXCEPT
               !.devices[device_id].current_position = position,
               !.devices[device_id].position_history =
                   IF n > HistoryLimit THEN SubSeq(history, 1, HistoryLimit)
                   ELSE history,
               !.devices[device_id].current_zone = IF zone_id # None THEN zone_id ELSE @,
               !.devices[device_id].zones_visited =
                   IF zone_id # None THEN @ \cup {zone_id} ELSE @]

\* DeviceManager.update_position
manager_update_position(R, device_id, position, zone_id) ==
    IF device_id \notin DOMAIN R.devices
    THEN R
    ELSE LET history == Append(R.devices[device_id].position_history, <<now, position>>)
             n == Len(history)
         IN [R EXCEPT
               !.devices[device_id].current_position = position,
               !.devices[device_id].position_history =
                   IF n > HistoryLimit THEN SubSeq(history, n - HistoryLimit + 1, n)
                   ELSE history,
               !.devices[device_id].current_zone = IF zone_id # None THEN zone_id ELSE @,
               !.devices[device_id].zones_visited =
                   IF zone_id # None THEN @ \cup {zone_id} ELSE @]

\* the ids of the devices get_active_devices returns
get_active_devices(R, timeout_minutes) ==
    {d \in DOMAIN R.devices : R.devices[d].last_seen >= now - timeout_minutes * 60}

\* _calculate_position_confidence, in percent; a coordinate unit is a
\* centimetre, so that 2.0 m/s is 200 units a second. The position calculator
\* has no kalman_filters attribute
_calculate_position_confidence(R, position, device_id, timestamp, receiver_count) ==
    LET base == 50 + (IF receiver_count >= 3 THEN 30
                      ELSE IF receiver_count = 2 THEN 10 ELSE 0 - 20)
        history == IF device_id \in DOMAIN R.devices
                   THEN R.devices[device_id].position_history ELSE <<>>
        last_entry == history[Len(history)]
        distance == Hypot(position[1] - last_entry[2][1], position[2] - last_entry[2][2])
        time_diff == timestamp - last_entry[1]
        adjusted == IF history = <<>> \/ time_diff <= 0 THEN base
                    ELSE IF distance <= 200 * time_diff THEN base + 10
                    ELSE IF distance <= 500 * time_diff THEN base + 5
                    ELSE base - 20
    IN Max(0, Min(100, adjusted))

\* the components a sighting is applied to, as one value
Sys == [reg |-> Registry, traj |-> Traj, dwell |-> Dwell, flow |-> Flow, db |-> Db]

SetSys(S) ==
    /\ SetRegistry(S.reg)
    /\ SetTraj(S.traj)
    /\ SetDwell(S.dwell)
    /\ SetFlow(S.flow)
    /\ SetDb(S.db)

\* _update_device_position up to its return or to the await inside
\* save_position: the state after it and where the task is then
_update_device_position(S, device_id, position, zone_id) ==
    LET timestamp == now
        R1 == manager_update_position(S.reg, device_id, position, zone_id)
        confidence == _calculate_position_confidence(R1, position, device_id, timestamp, 1)
        saved == IF S.db.is_connected
                 THEN save_position(S.db, device_id, position, zone_id, confidence,
                                    timestamp).st
                 ELSE S.db
    IN [st |-> [reg |-> R1,
                traj |-> add_position(S.traj, device_id, position, timestamp, zone_id,
                                      confidence),
                dwell |-> dwell_update_position(S.dwell, device_id, zone_id, timestamp),
                flow |-> update_device_zone(S.flow, device_id, zone_id, timestamp),
                db |-> saved],
        at |-> IF "save_position" \in DOMAIN saved.sessions THEN "flush" ELSE "next",
        device_id |-> device_id,
        updated |-> TRUE]

\* the body of the loop of _process_multi_receiver_data for one device, up to
\* its first await: "raised" when it raises (device_obj.device_id on None is
\* an AttributeError), "save_device" when it awaits save_device
_process_multi_receiver_data(S, sighting) ==
    LET r == register_device(S.reg, sighting.mac, TRUE)
        S1 == [S EXCEPT !.reg = r.st]
    IN IF r.ret = "KeyError"
       THEN [st |-> S1, at |-> "raised", device_id |-> None, updated |-> FALSE]
       ELSE IF sighting.position = NoPosition
       THEN [st |-> S1, at |-> "next", device_id |-> r.ret, updated |-> FALSE]
       ELSE IF r.ret = None
       THEN [st |-> S1, at |-> "raised", device_id |-> None, updated |-> FALSE]
       ELSE IF S1.db.is_connected
       THEN [st |-> S1, at |-> "save_device", device_id |-> r.ret, updated |-> FALSE]
       ELSE _update_device_position(S1, r.ret, sighting.position,
                                    get_zone_id(sighting.position))

\* the body of the loop of _process_single_receiver_data for one device, up
\* to its await of save_device
_process_single_receiver_data(S, sighting) ==
    LET r == register_device(S.reg, sighting.mac, TRUE)
        S1 == [S EXCEPT !.reg = r.st]
    IN IF r.ret \in {"KeyError", None}
       THEN [st |-> S1, at |-> "raised", device_id |-> None, updated |-> FALSE]
       ELSE [st |-> [S1 EXCEPT !.reg = manager_update_position(
                                          S1.reg, r.ret, sighting.position,
                                          get_zone_id(sighting.position))],
             at |-> IF S1.db.is_connected THEN "save_device" ELSE "next",
             device_id |-> r.ret,
             updated |-> TRUE]

\* add_transition for each pair of consecutive zones of zones_visited, as
\* the analysis loop calls it
RECURSIVE AddVisited(_, _, _, _)
AddVisited(F, device_id, zones_visited, i) ==
    IF i >= Len(zones_visited)
    THEN F
    ELSE AddVisited(add_transition(F, device_id, zones_visited[i], zones_visited[i + 1],
                                   now, 10),
                    device_id, zones_visited, i + 1)

\* one pass of _analysis_loop over the buffered devices: a registered device
\* that is no longer active has its trajectory finalized and the zones it
\* visited added as transitions
RECURSIVE AnalysisPass(_, _, _)
AnalysisPass(S, ids, active_devices) ==
    IF ids = <<>>
    THEN S
    ELSE LET device_id == Head(ids)
             r == finalize_trajectory(S.traj, device_id)
             S1 == IF device_id \in DOMAIN S.reg.devices /\ device_id \notin active_devices
                   THEN [S EXCEPT !.traj = r.st,
                                  !.flow = IF r.ret # <<>>
                                           THEN AddVisited(S.flow, device_id,
                                                           r.ret[1].zones_visited, 1)
                                           ELSE S.flow]
                   ELSE S
         IN AnalysisPass(S1, Tail(ids), active_devices)

\* a pass of _analysis_loop from where the task is up to its next await:
\* the await of save_flow_transition, made after each add_transition when the
\* database is connected, or the sleep that ends the pass. called collects the
\* devices finalize_trajectory is called for
RECURSIVE AnalysisRun(_, _, _)
AnalysisRun(S, task, called) ==
    IF task.i < Len(task.zones_visited)
    THEN LET S1 == [S EXCEPT !.flow = add_transition(S.flow, task.device_id,
                                                     task.zones_visited[task.i],
                                                     task.zones_visited[task.i + 1],
                                                     now, 10)]
             t == [task EXCEPT !.i = @ + 1]
         IN IF S.db.is_connected
            THEN [st |-> S1, task |-> [t EXCEPT !.pc = "save_flow_transition"],
                  called |-> called]
            ELSE AnalysisRun(S1, t, called)
    ELSE IF task.ids = <<>>
    THEN [st |-> S,
          task |-> [pc |-> "sleep", ids |-> <<>>, active_devices |-> {},
                    device_id |-> None, zones_visited |-> <<>>, i |-> 1],
          called |-> called]
    ELSE LET device_id == Head(task.ids)
             r == finalize_trajectory(S.traj, device_id)
             t == [task EXCEPT !.ids = Tail(@)]
         IN IF device_id \in DOMAIN S.reg.devices /\ device_id \notin task.active_devices
            THEN AnalysisRun([S EXCEPT !.traj = r.st],
                             [t EXCEPT !.device_id = device_id,
                                       !.zones_visited = IF r.ret # <<>>
                                                         THEN r.ret[1].zones_visited
                                                         ELSE <<>>,
                                       !.i = 1],
                             called \cup {device_id})
            ELSE AnalysisRun(S, t, called)

----------------------------------------------------------------------------
(* PositionCalculator *)

\* config.get('min_receivers', 3)
min_receivers == 3

\* config['algorithm']; any other name selects the trilateration
Algorithms == {"trilateration", "weighted_centroid", "kalman", "fingerprint"}

\* the receivers of the layout, in the order the scanner reports them, and
\* their positions; the facility is FacilityWidth by FacilityHeight
ReceiverOrder == <<"r1", "r2", "r3", "r4">>

Receivers == Range(ReceiverOrder)

receiver_positions ==
    [r \in Receivers |-> CASE r = "r1" -> <<0, 0>>
                           [] r = "r2" -> <<128, 0>>
                           [] r = "r3" -> <<0, 64>>
                           [] OTHER -> <<128, 64>>]

FacilityWidth == 128

FacilityHeight == 64

\* the distances rssi_to_distance yields, metres: the devices are next to the
\* first receiver and away from the others
Distances == {[r \in Receivers |-> IF r = "r1" THEN 1 ELSE 3]}

\* ReceiverMeasurement; rssi only orders the measurements the trilateration
\* hands to the optimizer
Measurement(receiver_id, distance) ==
    [receiver_id |-> receiver_id, receiver_position |-> receiver_positions[receiver_id],
     distance |-> distance]

\* the measurements of one device in a scan: one of each receiver that heard
\* it, in the order of the receivers
MeasurementLists ==
    {LET Heard(r) == r \in S
         heard == SelectSeq(ReceiverOrder, Heard)
     IN [i \in 1..Len(heard) |-> Measurement(heard[i], dist[heard[i]])] :
        S \in (SUBSET Receivers) \ {{}}, dist \in Distances}

\* A position is <<X, Y, den>>, the point (X / den, Y / den)

RECURSIVE Product(_)
Product(s) == IF s = <<>> THEN 1 ELSE Head(s) * Product(Tail(s))

\* weight = 1.0 / (m.distance + 0.1), that is 10 / Tenths(m)
Tenths(m) == 10 * m.distance + 1

\* the weight of measurement i over the product of the Tenths of all of them
Weight(measurements, i) ==
    Product([j \in 1..Len(measurements) |->
                IF j = i THEN 1 ELSE Tenths(measurements[j])])

\* _weighted_centroid: sum(positions * weights) / sum(weights)
_weighted_centroid(measurements) ==
    LET n == Len(measurements)
        weights == [i \in 1..n |-> Weight(measurements, i)]
    IN <<SumSeq([i \in 1..n |-> measurements[i].receiver_position[1] * weights[i]]),
         SumSeq([i \in 1..n |-> measurements[i].receiver_position[2] * weights[i]]),
         SumSeq(weights)>>

\* _clip_to_facility
_clip_to_facility(position) ==
    <<Max(0, Min(position[1], FacilityWidth * position[3])),
      Max(0, Min(position[2], FacilityHeight * position[3])),
      position[3]>>

\* what scipy's minimize returns: success and the point x
OptimizerPoints == {<<64, 32, 1>>, <<200, 0, 1>>}

OptimizerResults == [success : BOOLEAN, x : OptimizerPoints]

\* _trilateration with the given outcome of the optimizer: <<>> is None
_trilateration(measurements, result) ==
    IF Len(measurements) < 3 THEN <<>>
    ELSE IF result.success THEN <<result.x>>
    ELSE <<>>

Calculator == [algorithm |-> algorithm, kalman_states |-> kalman_states]

\* The state of a filter, {'x': ..., 'P': ...}, is determined by the position
\* it was initialised with and the observations fused since: x is kept as
\* these, P as the number of updates made. The estimate (state['x'][0],
\* state['x'][1]) is kept as the x it is read from.
InitialState(initial_position) == [x |-> <<initial_position>>, P |-> 0]

KalmanUpdate(state, z) == [x |-> Append(state.x, z), P |-> state.P + 1]

\* _kalman_filter: the state after the call, the key of the filter used, the
\* estimate returned
_kalman_filter(C, measurements) ==
    LET device_id == measurements[1].receiver_id
        initial_position == _weighted_centroid(measurements)
        state == IF device_id \notin DOMAIN C.kalman_states
                 THEN InitialState(initial_position)
                 ELSE C.kalman_states[device_id]
        updated == KalmanUpdate(state, initial_position)
    IN [st |-> [C EXCEPT !.kalman_states = Put(@, device_id, updated)],
        key |-> device_id,
        ret |-> [estimate |-> updated.x, clipped |-> FALSE]]

\* calculate_position: the state after the call, the key of the filter used
\* and the position returned, <<>> for None
calculate_position(C, measurements, result) ==
    IF Len(measurements) < min_receivers
    THEN [st |-> C, key |-> None, ret |-> <<>>]
    ELSE CASE C.algorithm = "weighted_centroid" ->
                [st |-> C, key |-> None,
                 ret |-> <<_clip_to_facility(_weighted_centroid(measurements))>>]
           [] C.algorithm = "kalman" ->
                LET k == _kalman_filter(C, measurements) IN
                [st |-> k.st, key |-> k.key,
                 ret |-> <<[k.ret EXCEPT !.clipped = TRUE]>>]
           [] OTHER ->
                LET position == _trilateration(measurements, result) IN
                [st |-> C, key |-> None,
                 ret |-> IF position = <<>> THEN <<>>
                         ELSE <<_clip_to_facility(position[1])>>]

----------------------------------------------------------------------------
(* The calls of the DeviceManager as actions *)

CallRegisterDevice ==
    \E mac \in Macs, check_duplicate \in BOOLEAN :
        LET r == register_device(Registry, mac, check_duplicate) IN
        /\ CanTouch(mac)
        /\ SetRegistry(r.st)
        /\ call' = [op |-> "register_device", mac |-> mac, ret |-> r.ret]
        /\ UNCHANGED <<now, exceptRegistry>>

CallStartNewScan ==
    /\ SetRegistry(start_new_scan(Registry))
    /\ call' = [op |-> "start_new_scan"]
    /\ UNCHANGED <<now, exceptRegistry>>

CallCleanupUndetected ==
    LET r == cleanup_undetected_devices(Registry) IN
    /\ SetRegistry(r.st)
    /\ call' = [op |-> "cleanup_undetected_devices", ret |-> r.ret]
    /\ UNCHANGED <<now, exceptRegistry>>

CallCleanupOld ==
    \E days \in CleanupDays :
        LET r == cleanup_old_devices(Registry, days) IN
        /\ SetRegistry(r.st)
        /\ call' = [op |-> "cleanup_old_devices", days |-> days, ret |-> r.ret]
        /\ UNCHANGED <<now, exceptRegistry>>

\* the positions given so far for a device
Requested(device_id) ==
    IF device_id \in DOMAIN requested THEN requested[device_id] ELSE <<>>

\* update_position called by itself, the n-th position given for a device being
\* the point (n, 0)
CallUpdatePosition ==
    \E device_id \in {"h1", "h2"}, zone_id \in Zones \cup {None} :
        LET position == <<Len(Requested(device_id)) + 1, 0>>
            R == manager_update_position(Registry, device_id, position, zone_id)
        IN /\ Len(Requested(device_id)) < MaxRequests
           /\ devices' = R.devices
           /\ mac_to_id' = R.mac_to_id
           /\ current_scan_devices' = R.current_scan_devices
           /\ previous_scan_devices' = R.previous_scan_devices
           /\ requested' = IF device_id \in DOMAIN devices
                           THEN Put(requested, device_id, Append(Requested(device_id), position))
                           ELSE requested
           /\ call' = [op |-> "update_position", device_id |-> device_id,
                       position |-> position, zone_id |-> zone_id]
           /\ UNCHANGED <<now, anonymize, exceptRegistry>>

\* the registration of the device the positions are given for
RegisterTracked ==
    CallRegisterDevice /\ call'.mac = "m1"

\* the passage of time between calls: a few seconds, or just over a week
WeekSeconds == 7 * DaySeconds + 1

TickRegistry ==
    /\ \/ TickBy(3, WeekSeconds, MaxSeconds)
       \/ TickBy(WeekSeconds, 2 * WeekSeconds, WeekSeconds + MaxSeconds)
    /\ UNCHANGED <<call, components>>

\* The scan cycle the DeviceManager is written for: start_new_scan, the
\* register_device calls of the devices the scan reports, then
\* cleanup_undetected_devices; the first cycle begins at construction
CycleStart ==
    /\ call.op \in {"init", "cleanup_undetected_devices"}
    /\ CallStartNewScan

CycleRegister ==
    /\ call.op \in {"init", "start_new_scan", "register_device"}
    /\ CallRegisterDevice

CycleCleanup ==
    /\ call.op \in {"init", "start_new_scan", "register_device"}
    /\ CallCleanupUndetected

\* the passage of time during the cycles: a few seconds
TickCycle ==
    /\ TickBy(3, WeekSeconds, MaxSeconds)
    /\ UNCHANGED <<call, components>>

----------------------------------------------------------------------------
(* The calls of the DwellTimeAnalyzer as actions; the caller passes
   datetime.now() as the timestamp *)

StoredRecords ==
    Cardinality({<<z, i>> \in Zones \X (1..MaxRecords) : i <= Len(dwell_records[z])})

\* the lists and counters are capped to keep the model finite
DwellRoom(zone_id) ==
    /\ StoredRecords < MaxRecords
    /\ zone_id \in Zones => zone_occupancy[zone_id] < MaxOccupancy

CallEnterZone(devs, zones) ==
    \E device_id \in devs, zone_id \in zones :
        /\ DwellRoom(zone_id)
        /\ SetDwell(enter_zone(Dwell, device_id, zone_id, now))
        /\ call' = [op |-> "enter_zone", device_id |-> device_id, zone_id |-> zone_id,
                    timestamp |-> now]
        /\ UNCHANGED <<now, exceptDwell>>

CallExitZone(devs, zones) ==
    \E device_id \in devs, zone_id \in zones :
        LET r == exit_zone(Dwell, device_id, zone_id, now) IN
        /\ DwellRoom(None)
        /\ SetDwell(r.st)
        /\ call' = [op |-> "exit_zone", device_id |-> device_id, zone_id |-> zone_id,
                    timestamp |-> now, ret |-> r.ret,
                    closed |-> device_id \in DOMAIN active_dwells]
        /\ UNCHANGED <<now, exceptDwell>>

CallDwellUpdatePosition(devs, zones) ==
    \E device_id \in devs, zone_id \in zones \cup {None} :
        /\ DwellRoom(zone_id)
        /\ SetDwell(dwell_update_position(Dwell, device_id, zone_id, now))
        /\ call' = [op |-> "update_position", device_id |-> device_id, zone_id |-> zone_id,
                    timestamp |-> now]
        /\ UNCHANGED <<now, exceptDwell>>

\* the limits of a queried time range
RangeTimes == {NoTime, 5}

CallGetZoneStatistics ==
    \E zone_id \in StatsZones, start_time \in RangeTimes, end_time \in RangeTimes :
        LET r == get_zone_statistics(Dwell, zone_id, start_time, end_time) IN
        /\ SetDwell(r.st)
        /\ call' = [op |-> "get_zone_statistics", zone_id |-> zone_id,
                    ranged |-> (start_time # NoTime \/ end_time # NoTime),
                    ret |-> r.ret, hit |-> r.hit]
        /\ UNCHANGED <<now, exceptDwell>>

\* the passage of time between calls: a few seconds
TickDwell ==
    /\ TickBy(5, CacheSeconds, MaxDwellSeconds)
    /\ UNCHANGED <<call, components>>

\* the passage of time between calls: the minimum dwell, a minute, or a day
TickStats ==
    /\ \/ TickBy(min_dwell_time, CacheSeconds, MaxDwellSeconds)
       \/ TickBy(CacheSeconds, DaySeconds, CacheSeconds + MaxDwellSeconds)
       \/ TickBy(DaySeconds, 2 * DaySeconds, DaySeconds + CacheSeconds + MaxDwellSeconds)
    /\ UNCHANGED <<call, components>>

----------------------------------------------------------------------------
(* The calls of the FlowAnalyzer as actions; the caller passes
   datetime.now() as the timestamp *)

FlowDevices == {"h1", "h2"}

\* the zones a device is reported in in the transition runs
UpdateZones == {"A", "B"}

\* the transitions added in the prediction runs
PredictPairs == ({"A"} \X FlowZones) \cup {<<"B", "A">>}

PredictZones == {"A", "B"}

\* n_predictions: int = 3
PredictionCounts == {3}

\* the number of update_device_zone calls made so far
TotalUpdates == SumSeq([i \in 1..Len(Ordered(DOMAIN updates)) |->
                           Len(updates[Ordered(DOMAIN updates)[i]])])

CallUpdateDeviceZone ==
    \E device_id \in FlowDevices, zone_id \in UpdateZones \cup {None} :
        /\ TotalUpdates < MaxUpdates
        /\ SetFlow(update_device_zone(Flow, device_id, zone_id, now))
        /\ updates' = Put(updates, device_id,
                          Append(IF device_id \in DOMAIN updates THEN updates[device_id]
                                 ELSE <<>>,
                                 <<zone_id, now>>))
        /\ call' = [op |-> "update_device_zone", device_id |-> device_id,
                    zone_id |-> zone_id, timestamp |-> now]
        /\ UNCHANGED <<now, exceptFlow>>

CallAddTransition ==
    \E pair \in PredictPairs :
        /\ Len(transitions) < MaxTransitions
        /\ SetFlow(add_transition(Flow, "h1", pair[1], pair[2], now, NoDuration))
        /\ call' = [op |-> "add_transition", from_zone |-> pair[1], to_zone |-> pair[2]]
        /\ UNCHANGED <<now, updates, exceptFlow>>

CallPredictNextZone ==
    \E current_zone \in PredictZones, n_predictions \in PredictionCounts :
        /\ call' = [op |-> "predict_next_zone", current_zone |-> current_zone,
                    n_predictions |-> n_predictions,
                    ret |-> predict_next_zone(Flow, current_zone, n_predictions)]
        /\ UNCHANGED <<now, components>>

\* the passage of time between calls: a second
TickFlow ==
    /\ TickBy(1, MaxFlowSeconds + 1, MaxFlowSeconds)
    /\ UNCHANGED <<call, components>>

----------------------------------------------------------------------------
(* The calls of the TrajectoryAnalyzer as actions; the caller passes
   datetime.now() as the timestamp *)

TrajDevices == {"h1", "h2"}

\* the number of points buffered or stored in trajectories
TotalPoints ==
    SumSeq([i \in 1..Len(Ordered(DOMAIN active_points)) |->
               Len(active_points[Ordered(DOMAIN active_points)[i]])])
    + SumSeq([i \in 1..Len(Ordered(DOMAIN trajectories)) |->
               Len(trajectories[Ordered(DOMAIN trajectories)[i]].points)])

CallAddPosition ==
    \E device_id \in TrajDevices, position \in Positions :
        /\ TotalPoints < MaxPoints
        /\ SetTraj(add_position(Traj, device_id, position, now, get_zone_id(position),
                                DefaultConfidence))
        /\ call' = [op |-> "add_position", device_id |-> device_id]
        /\ UNCHANGED <<now, exceptTraj>>

\* the timestamps a caller of add_position passes
SampleTimes == 0..MaxTrajSeconds

\* add_position called with a timestamp of the caller's choice
CallAddPositionAt ==
    \E device_id \in TrajDevices, position \in Positions, timestamp \in SampleTimes :
        /\ TotalPoints < MaxPoints
        /\ SetTraj(add_position(Traj, device_id, position, timestamp,
                                get_zone_id(position), DefaultConfidence))
        /\ call' = [op |-> "add_position", device_id |-> device_id,
                    timestamp |-> timestamp]
        /\ UNCHANGED <<now, exceptTraj>>

CallFinalizeTrajectory ==
    \E device_id \in TrajDevices :
        LET r == finalize_trajectory(Traj, device_id) IN
        /\ SetTraj(r.st)
        /\ call' = [op |-> "finalize_trajectory", device_id |-> device_id, ret |-> r.ret]
        /\ UNCHANGED <<now, exceptTraj>>

\* the passage of time between calls: a second
TickTraj ==
    /\ TickBy(1, MaxTrajSeconds + 1, MaxTrajSeconds)
    /\ UNCHANGED <<call, components>>

----------------------------------------------------------------------------
(* The calls of the DataIntegration as actions. A task runs until it awaits;
   flush_positions awaits the commit of its session *)

\* the places where the scan task awaits: the sleep between two scans, the
\* sleep after an exception, save_device, and the commit inside save_position
Suspended == {"sleep", "backoff", "save_device", "flush"}

\* the scan task after the device it is at: the next device, or the sleep
\* that ends the scan
ScanNext(task) ==
    IF task.i < Len(task.batch)
    THEN [task EXCEPT !.pc = "device", !.i = @ + 1]
    ELSE [task EXCEPT !.pc = "sleep"]

\* connect(), called by initialize() before the tasks are started, succeeds;
\* is_connected stays False when it fails
Connect ==
    /\ ~is_connected
    /\ call.op = "init"
    /\ is_connected' = TRUE
    /\ call' = [op |-> "connect"]
    /\ UNCHANGED <<now, position_buffer, positions_saved, db_errors, sessions, written,
                   accepted, exceptDb>>

\* save_position called by the task that ingests positions
CallSavePosition ==
    \E device_id \in TrajDevices, position \in Positions :
        LET r == save_position(Db, device_id, position, get_zone_id(position),
                               DefaultConfidence, now) IN
        /\ "save_position" \notin DOMAIN sessions
        /\ accepted < MaxPositions
        /\ SetDb(r.st)
        /\ call' = [op |-> "save_position", device_id |-> device_id, ret |-> r.ret]
        /\ UNCHANGED <<now, exceptDb>>

\* the periodic_flush task, started when the database is connected, calls
\* flush_positions
PeriodicFlush ==
    /\ is_connected
    /\ scan_task.pc \in Suspended
    /\ "periodic_flush" \notin DOMAIN sessions
    /\ SetDb(flush_positions_begin(Db, "periodic_flush"))
    /\ call' = [op |-> "flush_positions", flusher |-> "periodic_flush"]
    /\ UNCHANGED <<now, exceptDb>>

\* the scan task when the flush of a flusher ends: save_position returns to
\* _update_device_position, which returns to the loop over the batch
Resumed(flusher) ==
    IF flusher = "save_position" /\ scan_task.pc = "flush" THEN ScanNext(scan_task)
    ELSE scan_task

\* the commit of a session completes
CommitDone ==
    \E flusher \in DOMAIN sessions :
        /\ scan_task.pc \in Suspended
        /\ SetDb(flush_positions_commit(Db, flusher))
        /\ scan_task' = Resumed(flusher)
        /\ call' = [op |-> "commit", flusher |-> flusher, ok |-> TRUE]
        /\ UNCHANGED <<now, regVars, dwellVars, flowVars, trajVars, calcVars,
                       multi_receiver, is_running, sightings,
                   analysis_task>>

\* the commit of a session raises
CommitFailed ==
    \E flusher \in DOMAIN sessions :
        /\ scan_task.pc \in Suspended
        /\ db_errors < MaxErrors
        /\ SetDb(flush_positions_fail(Db, flusher))
        /\ scan_task' = Resumed(flusher)
        /\ call' = [op |-> "commit", flusher |-> flusher, ok |-> FALSE]
        /\ UNCHANGED <<now, regVars, dwellVars, flowVars, trajVars, calcVars,
                       multi_receiver, is_running, sightings,
                   analysis_task>>

----------------------------------------------------------------------------
(* The tasks of the MotionAnalysisSystem as actions. The tasks share one
   event loop: a task runs until it awaits, so the others take their steps
   only while the scan task is suspended in an await *)

\* the position estimated in the runs of the system
SystemPositions == {<<64, 0>>}

\* a device of a batch: its address and the position estimated for it
\* (calculate_position returns None when the receivers are too few)
Sightings == [mac : Macs, position : SystemPositions \cup {NoPosition}]

\* the scanner reports each address once in a batch
Batches ==
    {<<s>> : s \in Sightings}
    \cup {<<p[1], p[2]>> : p \in {q \in Sightings \X Sightings : q[1].mac # q[2].mac}}

\* the scan task when an exception leaves _scanning_loop uncaught and ends
\* the task
Proceed_uncaught(task, mac, out) ==
    LET t == [task EXCEPT !.applied = IF out.updated THEN @ \cup {mac} ELSE @,
                          !.device_id = out.device_id]
    IN IF out.at = "raised" THEN [t EXCEPT !.pc = "ended", !.failed = mac]
       ELSE IF out.at \in {"save_device", "flush"} THEN [t EXCEPT !.pc = out.at]
       ELSE ScanNext(t)

\* the scan task after the processing of a device has come to out.at; an
\* exception leaves the loop over the batch for the handler of _scanning_loop
Proceed(task, mac, out) ==
    LET t == [task EXCEPT !.applied = IF out.updated THEN @ \cup {mac} ELSE @,
                          !.device_id = out.device_id]
    IN IF out.at = "raised" THEN [t EXCEPT !.pc = "backoff", !.failed = mac]
       ELSE IF out.at \in {"save_device", "flush"} THEN [t EXCEPT !.pc = out.at]
       ELSE ScanNext(t)

\* the state after a step of the scan task on a sighting
ApplyOutcome(sighting, out, begins, completes) ==
    LET mac == sighting.mac
        arrived == sightings[mac].arrived + (IF begins THEN 1 ELSE 0)
        delivers == out.updated /\ multi_receiver
    IN /\ SetSys(out.st)
       /\ updates' = IF delivers
                     THEN Put(updates, out.device_id,
                              Append(IF out.device_id \in DOMAIN updates
                                     THEN updates[out.device_id] ELSE <<>>,
                                     <<get_zone_id(sighting.position), now>>))
                     ELSE updates
       /\ scan_task' = Proceed(scan_task, mac, out)
       /\ sightings' = [sightings EXCEPT ![mac] =
                           [arrived |-> arrived,
                            completed |-> @.completed + (IF completes THEN 1 ELSE 0),
                            delivered |-> IF delivers THEN Append(@.delivered, arrived)
                                          ELSE @.delivered]]
       /\ UNCHANGED <<now, calcVars, multi_receiver, is_running, analysis_task>>

\* the number of sightings processed so far
Arrived == SumSeq([i \in 1..Len(Ordered(Macs)) |-> sightings[Ordered(Macs)[i]].arrived])

\* _scanning_loop takes the devices the scanner reports
ScanBegin ==
    /\ is_running
    /\ scan_task.pc \in {"sleep", "backoff"}
    /\ \E batch \in Batches :
          /\ Arrived + Len(batch) <= MaxSightings
          /\ \A i \in 1..Len(batch) : multi_receiver \/ batch[i].position # NoPosition
          /\ scan_task' = [pc |-> "device", batch |-> batch, i |-> 1, failed |-> None,
                           applied |-> {}, device_id |-> None]
    /\ call' = [op |-> "scan"]
    /\ UNCHANGED <<now, regVars, dwellVars, flowVars, trajVars, dbVars, calcVars,
                   multi_receiver, is_running, sightings,
                   analysis_task>>

\* the scan task processes the next device of the batch up to its first await
ScanDevice ==
    /\ scan_task.pc = "device"
    /\ \E sighting \in {scan_task.batch[scan_task.i]} :
       \E out \in {IF multi_receiver THEN _process_multi_receiver_data(Sys, sighting)
                   ELSE _process_single_receiver_data(Sys, sighting)} :
          /\ ApplyOutcome(sighting, out, TRUE,
                          out.at \in {"next", "flush"}
                          \/ (out.at = "save_device" /\ out.updated))
          /\ call' = [op |-> "sighting", mac |-> sighting.mac, at |-> out.at]

\* save_device returns: _process_multi_receiver_data goes on to
\* _update_device_position, _process_single_receiver_data to the next device
ScanResume ==
    /\ scan_task.pc = "save_device"
    /\ \E sighting \in {scan_task.batch[scan_task.i]} :
       \E out \in {IF multi_receiver
                   THEN _update_device_position(Sys, scan_task.device_id, sighting.position,
                                                get_zone_id(sighting.position))
                   ELSE [st |-> Sys, at |-> "next", device_id |-> scan_task.device_id,
                         updated |-> FALSE]} :
          /\ ApplyOutcome(sighting, out, FALSE, multi_receiver)
          /\ call' = [op |-> "saved", mac |-> sighting.mac, at |-> out.at]

\* one pass of _analysis_loop
AnalysisLoop ==
    /\ is_running
    /\ scan_task.pc \in Suspended
    /\ \E S \in {AnalysisPass(Sys, Ordered(DOMAIN active_points),
                              get_active_devices(Registry, ActiveMinutes))} :
          /\ SetSys(S)
          /\ call' = [op |-> "analysis",
                      finalized |-> DOMAIN active_points \ DOMAIN S.traj.active_points]
    /\ UNCHANGED <<now, updates, calcVars, sysVars>>

\* one pass of _maintenance_loop
MaintenanceLoop ==
    /\ is_running
    /\ scan_task.pc \in Suspended
    /\ \E days \in CleanupDays :
          LET r == cleanup_old_devices(Registry, days) IN
          /\ SetRegistry(r.st)
          /\ call' = [op |-> "maintenance", ret |-> r.ret]
    /\ UNCHANGED <<now, exceptRegistry>>

\* the passage of time while the scan task is suspended: just over a week
TickSystem ==
    /\ scan_task.pc \in Suspended
    /\ TickBy(WeekSeconds, MaxWeeks * WeekSeconds + 1, MaxWeeks * WeekSeconds)
    /\ UNCHANGED <<call, components>>

\* _update_device_position called for the registered device h1 while the
\* database is not connected: the call returns without awaiting
FanOut ==
    \E device_id \in {"h1"}, position \in Positions :
        \E out \in {_update_device_position(Sys, device_id, position,
                                            get_zone_id(position))} :
            /\ device_id \in DOMAIN devices
            /\ ~is_connected
            /\ TotalUpdates < MaxUpdates
            /\ SetSys(out.st)
            /\ updates' = Put(updates, device_id,
                              Append(IF device_id \in DOMAIN updates
                                     THEN updates[device_id] ELSE <<>>,
                                     <<get_zone_id(position), now>>))
            /\ call' = [op |-> "update_device_position", device_id |-> device_id,
                        position |-> position, zone_id |-> get_zone_id(position)]
            /\ UNCHANGED <<now, calcVars, sysVars>>

\* the time after which get_active_devices no longer returns a device, seconds
IdleSeconds == ActiveMinutes * 60 + 1

\* the passage of time between position updates: long enough for a device to
\* become inactive
TickIdle ==
    /\ TickBy(IdleSeconds, (MaxIdles + 1) * IdleSeconds, MaxIdles * IdleSeconds)
    /\ UNCHANGED <<call, components>>

\* the devices go undetected for longer than the timeout of
\* get_active_devices, once
TickTimeout ==
    /\ TickBy(IdleSeconds, 2 * IdleSeconds, IdleSeconds)
    /\ UNCHANGED <<call, components>>

\* the scanning task detects a device: register_device as
\* _process_multi_receiver_data calls it, which touches last_seen of a known
\* device
Detected ==
    \E mac \in Macs :
        LET r == register_device(Registry, mac, TRUE) IN
        /\ CanTouch(mac)
        /\ SetRegistry(r.st)
        /\ call' = [op |-> "register_device", mac |-> mac, ret |-> r.ret]
        /\ UNCHANGED <<now, exceptRegistry>>

\* _update_device_position called for a registered device while the database
\* is connected, up to its return or to the await inside save_position
PositionUpdate ==
    \E device_id \in TrajDevices, position \in {<<0, 0>>, <<64, 0>>} :
        \E out \in {_update_device_position(Sys, device_id, position,
                                            get_zone_id(position))} :
            /\ device_id \in DOMAIN devices
            /\ is_connected
            /\ "save_position" \notin DOMAIN sessions
            /\ accepted < MaxPositions
            /\ TotalUpdates < MaxUpdates
            /\ SetSys(out.st)
            /\ updates' = Put(updates, device_id,
                              Append(IF device_id \in DOMAIN updates
                                     THEN updates[device_id] ELSE <<>>,
                                     <<get_zone_id(position), now>>))
            /\ call' = [op |-> "update_device_position", device_id |-> device_id,
                        position |-> position, zone_id |-> get_zone_id(position)]
            /\ UNCHANGED <<now, calcVars, sysVars>>

\* the analysis task wakes from its sleep and runs a pass up to its first
\* await: active_devices and the keys of active_points are read once, here
AnalysisBegin ==
    /\ is_running
    /\ scan_task.pc \in Suspended
    /\ analysis_task.pc = "sleep"
    /\ \E out \in {AnalysisRun(Sys,
                                [analysis_task EXCEPT
                                    !.ids = Ordered(DOMAIN active_points),
                                    !.active_devices =
                                        get_active_devices(Registry, ActiveMinutes)],
                                {})} :
          /\ SetSys(out.st)
          /\ analysis_task' = out.task
          /\ call' = [op |-> "analysis", finalize_calls |-> out.called]
    /\ UNCHANGED <<now, updates, calcVars, multi_receiver, is_running, scan_task,
                   sightings>>

\* save_flow_transition returns and the pass goes on to its next await
AnalysisResume ==
    /\ scan_task.pc \in Suspended
    /\ analysis_task.pc = "save_flow_transition"
    /\ \E out \in {AnalysisRun(Sys, analysis_task, {})} :
          /\ SetSys(out.st)
          /\ analysis_task' = out.task
          /\ call' = [op |-> "analysis", finalize_calls |-> out.called]
    /\ UNCHANGED <<now, updates, calcVars, multi_receiver, is_running, scan_task,
                   sightings>>

\* an iteration of _scanning_loop in which the scanner reports no device:
\* nothing is processed and the loop sleeps
ScanNothing ==
    /\ is_running
    /\ scan_task.pc \in {"sleep", "backoff"}
    /\ scan_task' = [pc |-> "sleep", batch |-> <<>>, i |-> 0, failed |-> None,
                     applied |-> {}, device_id |-> None]
    /\ call' = [op |-> "scan"]
    /\ UNCHANGED <<now, regVars, dwellVars, flowVars, trajVars, dbVars, calcVars,
                   multi_receiver, is_running, sightings,
                   analysis_task>>

\* an iteration of _scanning_loop in which the scanner raises: the handler
\* logs the exception and sleeps
ScanFails ==
    /\ is_running
    /\ scan_task.pc \in {"sleep", "backoff"}
    /\ scan_task' = Proceed([pc |-> "device", batch |-> <<>>, i |-> 0, failed |-> None,
                             applied |-> {}, device_id |-> None],
                            "scanner",
                            [at |-> "raised", updated |-> FALSE, device_id |-> None])
    /\ call' = [op |-> "scan_error"]
    /\ UNCHANGED <<now, regVars, dwellVars, flowVars, trajVars, dbVars, calcVars,
                   multi_receiver, is_running, sightings,
                   analysis_task>>

\* stop(): is_running is cleared and every task is cancelled
Stop ==
    /\ is_running
    /\ scan_task.pc \in Suspended
    /\ is_running' = FALSE
    /\ scan_task' = [scan_task EXCEPT !.pc = "cancelled"]
    /\ call' = [op |-> "stop"]
    /\ UNCHANGED <<now, regVars, dwellVars, flowVars, trajVars, dbVars, calcVars,
                   multi_receiver, sightings, analysis_task>>

----------------------------------------------------------------------------
(* The position estimates of _process_multi_receiver_data as actions *)

\* the outcomes of the optimizer a call can meet: none when it is not run
Outcomes(C, measurements) ==
    IF Len(measurements) < min_receivers \/ C.algorithm \in {"weighted_centroid", "kalman"}
    THEN {<<>>}
    ELSE {<<result>> : result \in OptimizerResults}

\* one device of a scan: register_device, then calculate_position with the
\* measurements of the receivers that heard it
EstimateDevice ==
    \E mac \in Macs, measurements \in MeasurementLists :
        \E outcome \in Outcomes(Calculator, measurements) :
            LET r == register_device(Registry, mac, TRUE)
                result == IF outcome = <<>> THEN [success |-> FALSE, x |-> <<0, 0, 1>>]
                          ELSE outcome[1]
                p == calculate_position(Calculator, measurements, result)
            IN /\ CanTouch(mac)
               /\ estimates < MaxEstimates
               /\ estimates' = estimates + 1
               /\ SetRegistry(r.st)
               /\ kalman_states' = p.st.kalman_states
               /\ filter_owner' = IF p.key # None /\ p.key \notin DOMAIN kalman_states
                                  THEN Put(filter_owner, p.key, mac)
                                  ELSE filter_owner
               /\ call' = [op |-> "calculate_position", mac |-> mac,
                           measurements |-> measurements, outcome |-> outcome,
                           key |-> p.key, ret |-> p.ret]
               /\ UNCHANGED <<now, algorithm, dwellVars, flowVars, trajVars, dbVars, sysVars>>

\* a week without scans
TickWeek ==
    /\ TickBy(WeekSeconds, 2 * WeekSeconds, WeekSeconds)
    /\ UNCHANGED <<call, components>>

----------------------------------------------------------------------------
(* Specifications *)

InitRegistry ==
    /\ anonymize \in BOOLEAN
    /\ devices = <<>>
    /\ mac_to_id = <<>>
    /\ current_scan_devices = {}
    /\ previous_scan_devices = {}
    /\ requested = <<>>

InitDwell ==
    /\ dwell_records = [z \in Zones |-> <<>>]
    /\ active_dwells = <<>>
    /\ zone_occupancy = [z \in Zones |-> 0]
    /\ zone_peak_occupancy = <<>>
    /\ stats_cache = <<>>
    /\ cache_timestamp = NoTime

InitFlow ==
    /\ transitions = <<>>
    /\ flow_matrix = <<>>
    /\ transition_durations = <<>>
    /\ device_paths = <<>>
    /\ device_zone_entry = <<>>
    /\ updates = <<>>

InitTraj ==
    /\ trajectories = <<>>
    /\ active_points = <<>>

InitDb ==
    /\ is_connected = FALSE
    /\ position_buffer = <<>>
    /\ positions_saved = 0
    /\ db_errors = 0
    /\ sessions = <<>>
    /\ written = <<>>
    /\ accepted = 0

InitCalculator ==
    /\ algorithm = "trilateration"
    /\ kalman_states = <<>>
    /\ filter_owner = <<>>
    /\ estimates = 0

InitSystem ==
    /\ multi_receiver \in BOOLEAN
    /\ is_running = TRUE
    /\ scan_task = [pc |-> "sleep", batch |-> <<>>, i |-> 0, failed |-> None,
                    applied |-> {}, device_id |-> None]
    /\ sightings = [mac \in Macs |-> [arrived |-> 0, completed |-> 0, delivered |-> <<>>]]
    /\ analysis_task = [pc |-> "sleep", ids |-> <<>>, active_devices |-> {},
                        device_id |-> None, zones_visited |-> <<>>, i |-> 1]

Init ==
    /\ now = 0
    /\ call = [op |-> "init"]
    /\ InitRegistry
    /\ InitDwell
    /\ InitFlow
    /\ InitTraj
    /\ InitDb
    /\ InitCalculator
    /\ InitSystem

\* the configuration of the runs of one component: the settings the other
\* components read are left at anonymize = True and the single-receiver scanner
InitComponent == Init /\ anonymize /\ ~multi_receiver

InitManager == Init /\ ~multi_receiver

NextRegistry ==
    \/ CallRegisterDevice
    \/ CallStartNewScan
    \/ CallCleanupUndetected
    \/ CallCleanupOld
    \/ TickRegistry

SpecRegistry == InitManager /\ [][NextRegistry]_vars

NextHistory ==
    \/ RegisterTracked
    \/ CallUpdatePosition

SpecHistory == InitComponent /\ [][NextHistory]_vars

NextCycle ==
    \/ CycleStart
    \/ CycleRegister
    \/ CycleCleanup
    \/ TickCycle

\* the cycles keep being run and time keeps passing
SpecCycle ==
    /\ InitManager
    /\ [][NextCycle]_vars
    /\ WF_vars(CycleStart)
    /\ WF_vars(CycleCleanup)
    /\ WF_vars(TickCycle)

NextDwell ==
    \/ CallEnterZone(AnalyzerDevices, Zones)
    \/ CallExitZone(AnalyzerDevices, Zones)
    \/ CallDwellUpdatePosition(AnalyzerDevices, Zones)
    \/ TickDwell

SpecDwell == InitComponent /\ [][NextDwell]_vars

NextStats ==
    \/ CallEnterZone(StatsDevices, StatsZones)
    \/ CallExitZone(StatsDevices, StatsZones)
    \/ CallGetZoneStatistics
    \/ TickStats

SpecStats == InitComponent /\ [][NextStats]_vars

NextFlow ==
    \/ CallUpdateDeviceZone
    \/ TickFlow

SpecFlow == InitComponent /\ [][NextFlow]_vars

\* the runs that mix the two ways a transition is recorded: add_transition
\* called for one device between the zones of the transition runs (a zone to
\* itself included), update_device_zone called for the other device
AddTransitionDirect ==
    CallAddTransition /\ call'.to_zone \in UpdateZones

UpdateZoneTracked ==
    CallUpdateDeviceZone /\ call'.device_id = "h2"

NextTransitions ==
    \/ AddTransitionDirect
    \/ UpdateZoneTracked

SpecTransitions == InitComponent /\ [][NextTransitions]_vars

\* the estimates of any configured strategy, interleaved with the removal of
\* devices from the registry
InitEstimate ==
    /\ now = 0
    /\ call = [op |-> "init"]
    /\ InitRegistry /\ anonymize
    /\ InitDwell
    /\ InitFlow
    /\ InitTraj
    /\ InitDb
    /\ algorithm \in Algorithms
    /\ kalman_states = <<>>
    /\ filter_owner = <<>>
    /\ estimates = 0
    /\ InitSystem /\ multi_receiver

NextEstimate ==
    \/ EstimateDevice
    \/ CallCleanupOld
    \/ TickWeek

SpecEstimate == InitEstimate /\ [][NextEstimate]_vars

NextPredict ==
    \/ CallAddTransition
    \/ CallPredictNextZone

SpecPredict == InitComponent /\ [][NextPredict]_vars

NextTraj ==
    \/ CallAddPosition
    \/ CallFinalizeTrajectory
    \/ TickTraj

SpecTraj == InitComponent /\ [][NextTraj]_vars

NextSamples ==
    \/ CallAddPositionAt
    \/ CallFinalizeTrajectory

SpecSamples == InitComponent /\ [][NextSamples]_vars

NextFlush ==
    \/ Connect
    \/ CallSavePosition
    \/ PeriodicFlush
    \/ CommitDone
    \/ CommitFailed

SpecFlush == InitComponent /\ [][NextFlush]_vars

NextSystem ==
    \/ Connect
    \/ ScanBegin
    \/ ScanDevice
    \/ ScanResume
    \/ PeriodicFlush
    \/ CommitDone
    \/ CommitFailed
    \/ AnalysisLoop
    \/ MaintenanceLoop
    \/ TickSystem

SpecSystem == Init /\ [][NextSystem]_vars

\* the position updates of one device and the analysis task, without a
\* database
NextFanOut ==
    \/ RegisterTracked
    \/ FanOut
    \/ AnalysisLoop
    \/ TickIdle

SpecFanOut == InitComponent /\ [][NextFanOut]_vars

\* the analysis task and the detections and position updates of the scanning
\* task, with a database, the devices moving between two zones
InitAnalysis == Init /\ anonymize /\ multi_receiver

NextAnalysis ==
    \/ Connect
    \/ Detected
    \/ PositionUpdate
    \/ CommitDone
    \/ AnalysisBegin
    \/ AnalysisResume
    \/ TickTimeout

SpecAnalysis == InitAnalysis /\ [][NextAnalysis]_vars

\* the scanning loop without a database, with scans that report nothing,
\* scans that fail, and stop()
NextScanLoop ==
    \/ ScanBegin
    \/ ScanDevice
    \/ ScanNothing
    \/ ScanFails
    \/ AnalysisLoop
    \/ MaintenanceLoop
    \/ Stop

\* the sleep of the scan task ends and its next iteration starts
ScanIteration == ScanBegin \/ ScanNothing \/ ScanFails

\* the event loop resumes the scan task when its sleep is over and runs it to
\* its next await
SpecScanLoop ==
    /\ Init
    /\ [][NextScanLoop]_vars
    /\ WF_vars(ScanIteration)
    /\ WF_vars(ScanDevice)

\* the event loop runs every task that is ready: the scan task goes on to its
\* next await, a pending commit returns, the analysis task wakes from its
\* sleep, and time passes
SpecSystemLive ==
    /\ SpecSystem
    /\ WF_vars(ScanDevice)
    /\ WF_vars(ScanResume)
    /\ WF_vars(CommitDone)
    /\ WF_vars(AnalysisLoop)
    /\ WF_vars(TickSystem)

----------------------------------------------------------------------------
(* Properties of the Dwell-Time Tracker *)

\* the DwellRecords of a device, stored or active, that have is_active set
ActiveRecords(device_id) ==
    {<<z, i>> \in Zones \X (1..(MaxRecords + 1)) :
        /\ i <= Len(dwell_records[z])
        /\ dwell_records[z][i].device_id = device_id
        /\ dwell_records[z][i].is_active}
    \cup {<<k>> : k \in {k \in DOMAIN active_dwells :
                            /\ active_dwells[k].device_id = device_id
                            /\ active_dwells[k].is_active}}

\* C1 (first part): a device has at most one DwellRecord with is_active set
AtMostOneActive ==
    \A d \in AnalyzerDevices : Cardinality(ActiveRecords(d)) <= 1

\* C1 (second part): enter_zone(d, z, t) on a device with an active dwell
\* closes that dwell at t, the record leaving the active set and being stored
\* with exit time t when it is long enough, its zone's occupancy taking the
\* floored decrement, and only then opens the record for z
EnterClosesFirst ==
    (CallEnterZone(AnalyzerDevices, Zones) /\ call'.device_id \in DOMAIN active_dwells) =>
        LET d == call'.device_id
            z == call'.zone_id
            t == call'.timestamp
            old == active_dwells[d]
            closed == [old EXCEPT !.exit_time = t, !.duration = t - old.entry_time,
                                  !.is_active = FALSE]
        IN /\ active_dwells' = [active_dwells EXCEPT ![d] = DwellRecord(d, z, t)]
           /\ dwell_records' =
                 IF t - old.entry_time >= min_dwell_time
                 THEN [dwell_records EXCEPT ![old.zone_id] = Append(@, closed)]
                 ELSE dwell_records
           /\ \A y \in Zones :
                 zone_occupancy'[y] =
                    (IF y = old.zone_id THEN Max(0, zone_occupancy[y] - 1)
                     ELSE zone_occupancy[y])
                    + (IF y = z THEN 1 ELSE 0)

\* C1: after any sequence of enter_zone / exit_zone / update_position calls
\* each device has at most one active DwellRecord, and an enter_zone on a
\* device with an active dwell first closes that dwell at the same timestamp
C1_OneActiveDwell == [](AtMostOneActive) /\ [][EnterClosesFirst]_vars

\* an enter_zone on a device with an active dwell has stored that dwell,
\* closed at the timestamp of the entry
C1_Witness ==
    /\ call.op = "enter_zone"
    /\ call.device_id \in DOMAIN active_dwells
    /\ active_dwells[call.device_id].entry_time = call.timestamp
    /\ \E z \in Zones : \E i \in 1..Len(dwell_records[z]) :
          /\ dwell_records[z][i].device_id = call.device_id
          /\ dwell_records[z][i].exit_time = call.timestamp

\* a get_zone_statistics call without a time range that directly follows
\* another one for the same zone
SecondStatisticsCall ==
    /\ CallGetZoneStatistics
    /\ call.op = "get_zone_statistics"
    /\ call.zone_id = call'.zone_id
    /\ ~call.ranged /\ ~call'.ranged

\* an exit_zone call that closes a dwell empties the cache
ExitInvalidates ==
    (CallExitZone(StatsDevices, StatsZones) /\ call'.closed) =>
        (stats_cache' = <<>> /\ cache_timestamp' = NoTime)

\* the get_zone_statistics call that follows an exit_zone call that closed a
\* dwell is computed from the current records
RecomputedAfterExit ==
    (CallGetZoneStatistics /\ call.op = "exit_zone" /\ call.closed /\ ~call'.ranged) =>
        /\ ~call'.hit
        /\ call'.ret = IF dwell_records[call'.zone_id] = <<>> THEN <<>>
                       ELSE <<ZoneStatistics(Dwell, call'.zone_id,
                                             dwell_records[call'.zone_id])>>

\* C10 as stated: two consecutive get_zone_statistics calls return identical
\* results, the second served from the cache; an exit_zone that closes a
\* dwell empties the cache and the next call recomputes
C10_Original ==
    /\ [][SecondStatisticsCall => (call'.ret = call.ret /\ call'.hit)]_vars
    /\ [][ExitInvalidates]_vars
    /\ [][RecomputedAfterExit]_vars

\* C10 as amended: the second call returns none when the first did, and when
\* the first returned statistics and the cache is still fresh (its age in
\* seconds, whole days dropped, is below 60) the second returns the same
\* statistics from the cache; an exit_zone that closes a dwell empties the
\* cache and the next call recomputes from the current records
C10_CachedWhileFresh ==
    /\ [][SecondStatisticsCall =>
            /\ call.ret = <<>> => call'.ret = <<>>
            /\ (call.ret # <<>> /\ CacheFresh(Dwell)) =>
                    (call'.ret = call.ret /\ call'.hit)]_vars
    /\ [][ExitInvalidates]_vars
    /\ [][RecomputedAfterExit]_vars

\* a second call has been served from the cache, which an earlier exit_zone
\* had emptied
C10_Witness ==
    /\ call.op = "get_zone_statistics"
    /\ call.hit
    /\ ~call.ranged
    /\ call.ret = <<stats_cache[call.zone_id]>>
    /\ dwell_records[call.zone_id] # <<>>

----------------------------------------------------------------------------
(* Properties of the Device Registry *)

\* the Device records that resolve to a hardware address
RecordsOf(mac) == {d \in DOMAIN devices : devices[d].hw = mac}

\* C2: the registry holds at most one Device record per hardware address,
\* whatever the sequence of registrations, scan cycles and cleanups
C2_OneDevicePerAddress ==
    \A mac \in Macs : Cardinality(RecordsOf(mac)) <= 1

\* an address sighted again, in a later cycle than the one that registered it
C2_Witness ==
    /\ call.op = "register_device"
    /\ call.ret = None
    /\ \E d \in RecordsOf(call.mac) :
          /\ devices[d].total_detections >= 2
          /\ devices[d].last_seen > devices[d].first_seen

\* C3: register_device(hw) creates and returns a Device exactly when the
\* registry holds no Device for hw; every other sighting returns none, creates
\* nothing, leaves first_seen unchanged and adds one to total_detections
C3_RegisterStep ==
    CallRegisterDevice =>
        LET mac == call'.mac IN
        IF RecordsOf(mac) = {}
        THEN /\ call'.ret \in DOMAIN devices' \ DOMAIN devices
             /\ devices'[call'.ret].hw = mac
        ELSE /\ call'.ret = None
             /\ DOMAIN devices' = DOMAIN devices
             /\ \A d \in DOMAIN devices :
                   /\ devices'[d].first_seen = devices[d].first_seen
                   /\ devices'[d].total_detections =
                         devices[d].total_detections + (IF devices[d].hw = mac THEN 1 ELSE 0)

C3_CreatesExactlyWhenAbsent == [][C3_RegisterStep]_vars

----------------------------------------------------------------------------
(* Properties of the Flow Analyzer *)

\* the transitions recorded for a device, in the order they were recorded
TransitionsOf(device_id) ==
    LET Mine(tr) == tr.device_id = device_id IN SelectSeq(transitions, Mine)

\* a history of update_device_zone calls in which every zone is given, each
\* differs from the one before, and the times increase
Alternating(h) ==
    \A i \in 1..Len(h) :
        /\ h[i][1] # None
        /\ i < Len(h) => (h[i][1] # h[i + 1][1] /\ h[i][2] < h[i + 1][2])

\* C7: update_device_zone calls for one device with zones z1..zn at times
\* t1 < ... < tn, consecutive zones differing, record exactly the n-1
\* transitions z1->z2, ..., z(n-1)->zn in order, each lasting t(i+1) - t(i)
C7_AlternatingTransitions ==
    \A d \in DOMAIN updates :
        LET h == updates[d] IN
        Alternating(h) =>
            TransitionsOf(d) =
                [i \in 1..(Len(h) - 1) |->
                    FlowTransition(h[i][1], h[i + 1][1], d, h[i + 1][2],
                                   h[i + 1][2] - h[i][2])]

\* a device reported in A, B, A, B at increasing times has three transitions
C7_Witness ==
    \E d \in DOMAIN updates :
        /\ Alternating(updates[d])
        /\ [i \in 1..Len(updates[d]) |-> updates[d][i][1]] = <<"A", "B", "A", "B">>
        /\ Len(TransitionsOf(d)) = 3

\* the sum of the counts of the returned predictions
ReturnedCount(ret) == SumSeq([i \in 1..Len(ret) |-> ret[i][2][1]])

\* C8: for a zone with at least one recorded outgoing transition, whatever the
\* number of its destinations, the probabilities predict_next_zone returns sum
\* to 1: the counts of the returned destinations sum to the outgoing total
C8_ProbabilitiesSumToOne ==
    (/\ call.op = "predict_next_zone"
     /\ OutgoingFlows(Flow, call.current_zone) # <<>>) =>
        /\ call.ret # <<>>
        /\ \A i \in 1..Len(call.ret) : ReturnedCount(call.ret) = call.ret[i][2][2]

----------------------------------------------------------------------------
(* Properties of the Trajectory Analyzer *)

\* the points buffered for a device, none when it has no buffer
Buffered(device_id) ==
    IF device_id \in DOMAIN active_points THEN active_points[device_id] ELSE <<>>

\* C9: finalize_trajectory(d) returns a trajectory exactly when d has at least
\* min_points buffered points; with fewer, or no buffer, it returns none and
\* stores no trajectory; with min_points or more it returns and stores a
\* trajectory that holds exactly the buffered points in order
C9_FinalizeStep ==
    CallFinalizeTrajectory =>
        LET d == call'.device_id
            points == Buffered(d)
        IN /\ (call'.ret # <<>>) <=> (Len(points) >= min_points)
           /\ Len(points) < min_points => (call'.ret = <<>> /\ trajectories' = trajectories)
           /\ Len(points) >= min_points =>
                 /\ call'.ret[1].points = points
                 /\ d \in DOMAIN trajectories'
                 /\ trajectories'[d] = call'.ret[1]

C9_FinalizeAtMinPoints == [][C9_FinalizeStep]_vars

\* a trajectory of exactly min_points points has been returned and stored
C9_Witness ==
    /\ call.op = "finalize_trajectory"
    /\ call.ret # <<>>
    /\ Len(call.ret[1].points) = min_points
    /\ trajectories[call.device_id] = call.ret[1]

----------------------------------------------------------------------------
(* Properties of the Persistence Bridge *)

\* the acceptance numbers of the points of a list
SeqsOf(points) == {points[i].seq : i \in 1..Len(points)}

\* C6: whatever the interleaving of save_position with periodic and
\* size-triggered flushes, every accepted position is in the position buffer
\* or has been written to the database, and positions_saved is the number of
\* points written
C6_NoPositionLost ==
    /\ \A k \in 1..accepted : k \in SeqsOf(position_buffer) \cup SeqsOf(written)
    /\ positions_saved = Len(written)

----------------------------------------------------------------------------
(* Properties of the scanning loop *)

\* the scan task has left the batch: it sleeps until the next scan
ScanEnded == scan_task.pc \in {"sleep", "backoff"}

\* C4: when the handling of one device of a batch fails (register_device
\* returning none for a known device included), every other device of the
\* batch is still registered and, when a position was estimated for it, has
\* its position update applied in that scan
C4_BatchIsolation ==
    (ScanEnded /\ scan_task.failed # None) =>
        \A i \in 1..Len(scan_task.batch) :
            LET sighting == scan_task.batch[i] IN
            sighting.mac # scan_task.failed =>
                /\ RecordsOf(sighting.mac) # {}
                /\ sighting.position # NoPosition => sighting.mac \in scan_task.applied

\* a list of numbers that increases
Increasing(s) == \A i \in 1..(Len(s) - 1) : s[i] < s[i + 1]

\* a step that begins a sighting of a device finds every earlier sighting of
\* that device completed
SightingBeginsAfterCompletion ==
    ScanDevice =>
        LET mac == scan_task.batch[scan_task.i].mac IN
        sightings[mac].completed = sightings[mac].arrived

\* C5: under every interleaving of the scan, analysis, maintenance and flush
\* tasks, the update sequence of a sighting of a device (registry update,
\* position estimate, trajectory, dwell and flow updates) has completed when
\* the next sighting of that device begins, and the analyzers receive the
\* updates of a device in the order of arrival
C5_SightingsInOrder ==
    /\ [][SightingBeginsAfterCompletion]_vars
    /\ [](\A mac \in Macs : Increasing(sightings[mac].delivered))

----------------------------------------------------------------------------
(* Properties of the statistics cache *)

\* the statistics a get_zone_statistics call has returned carry the occupancy
\* and the peak occupancy the tracker holds for the zone
ReadIsCurrent ==
    (call.op = "get_zone_statistics" /\ call.ret # <<>>) =>
        /\ call.ret[1].current_occupancy = zone_occupancy[call.zone_id]
        /\ call.ret[1].peak_occupancy =
              IF call.zone_id \in DOMAIN zone_peak_occupancy
              THEN zone_peak_occupancy[call.zone_id][1] ELSE 0

\* an enter_zone call, which always changes the tracker, empties the cache
EnterInvalidates ==
    CallEnterZone(StatsDevices, StatsZones) =>
        (stats_cache' = <<>> /\ cache_timestamp' = NoTime)

\* C11: every enter_zone and every exit_zone call that changes the tracker
\* empties the statistics cache before it returns, so that the statistics a
\* later get_zone_statistics returns have current_occupancy and
\* peak_occupancy equal to the tracker's values at the time of the read
C11_MutationInvalidatesCache ==
    /\ [](ReadIsCurrent)
    /\ [][EnterInvalidates]_vars
    /\ [][ExitInvalidates]_vars

----------------------------------------------------------------------------
(* Properties of the dwell durations of a device *)

\* the closed DwellRecords stored for a device, zone after zone
RECURSIVE ClosedIn(_, _)
ClosedIn(zs, device_id) ==
    IF zs = <<>> THEN <<>>
    ELSE SelectSeq(dwell_records[Head(zs)], LAMBDA r : r.device_id = device_id)
         \o ClosedIn(Tail(zs), device_id)

ClosedOf(device_id) == ClosedIn(Ordered(Zones), device_id)

\* the sum of the durations of the closed records of a device
ClosedSum(device_id) ==
    LET closed == ClosedOf(device_id)
    IN SumSeq([i \in 1..Len(closed) |-> closed[i].duration])

\* the timestamps of the enter and exit events the records of a device show
EventTimes(device_id) ==
    LET closed == ClosedOf(device_id)
    IN {closed[i].entry_time : i \in 1..Len(closed)}
       \cup {closed[i].exit_time : i \in 1..Len(closed)}
       \cup (IF device_id \in DOMAIN active_dwells
             THEN {active_dwells[device_id].entry_time} ELSE {})

FirstEvent(device_id) ==
    CHOOSE t \in EventTimes(device_id) : \A u \in EventTimes(device_id) : t <= u

LatestEvent(device_id) ==
    CHOOSE t \in EventTimes(device_id) : \A u \in EventTimes(device_id) : t >= u

\* the time the active record of a device has been open at its latest event
OpenElapsed(device_id) ==
    IF device_id \in DOMAIN active_dwells
    THEN LatestEvent(device_id) - active_dwells[device_id].entry_time
    ELSE 0

----------------------------------------------------------------------------
(* Properties of DwellTimeAnalyzer.update_position *)

\* an update_position(d, z, t) call: the dwell state of d afterwards is z; a
\* call with the zone d is in (or none, d being in no zone) changes nothing;
\* otherwise the active dwell of d, if any, is closed at t and, z being a
\* zone, a record entered at t becomes the active dwell of d
C13_UpdateStep ==
    CallDwellUpdatePosition(AnalyzerDevices, Zones) =>
        LET d == call'.device_id
            z == call'.zone_id
            t == call'.timestamp
            present == d \in DOMAIN active_dwells
            same == IF present THEN active_dwells[d].zone_id = z ELSE z = None
            old == active_dwells[d]
            closed == [old EXCEPT !.exit_time = t, !.duration = t - old.entry_time,
                                  !.is_active = FALSE]
        IN /\ z # None => (d \in DOMAIN active_dwells' /\ active_dwells'[d].zone_id = z)
           /\ z = None => d \notin DOMAIN active_dwells'
           /\ same => UNCHANGED dwellVars
           /\ (~same /\ z # None) => active_dwells'[d] = DwellRecord(d, z, t)
           /\ (~same /\ present) =>
                 /\ dwell_records' =
                       IF t - old.entry_time >= min_dwell_time
                       THEN [dwell_records EXCEPT ![old.zone_id] = Append(@, closed)]
                       ELSE dwell_records
                 /\ \A y \in Zones :
                       zone_occupancy'[y] =
                          (IF y = old.zone_id THEN Max(0, zone_occupancy[y] - 1)
                           ELSE zone_occupancy[y])
                          + (IF y = z THEN 1 ELSE 0)
           /\ (~same /\ ~present) => dwell_records' = dwell_records
           /\ \A e \in AnalyzerDevices \ {d} :
                 /\ (e \in DOMAIN active_dwells') = (e \in DOMAIN active_dwells)
                 /\ e \in DOMAIN active_dwells => active_dwells'[e] = active_dwells[e]

\* C13: after update_position(d, z, t) the dwell state of d equals z; the
\* call is a no-op when z is the zone d is in (entry time included), and
\* otherwise exits the old dwell at t and enters z at t when z is a zone
C13_UpdatePositionTracksZone == [][C13_UpdateStep]_vars

\* an update_position has moved a device to another zone: its old dwell is
\* stored, closed at the time of the call, and its new dwell begins then
C13_Witness ==
    /\ call.op = "update_position"
    /\ call.device_id \in DOMAIN active_dwells
    /\ active_dwells[call.device_id].zone_id = call.zone_id
    /\ active_dwells[call.device_id].entry_time = call.timestamp
    /\ \E z \in Zones \ {call.zone_id} : \E i \in 1..Len(dwell_records[z]) :
          /\ dwell_records[z][i].device_id = call.device_id
          /\ dwell_records[z][i].exit_time = call.timestamp

----------------------------------------------------------------------------
(* Properties of the removal of devices *)

\* the registered devices that have an active dwell in a zone
RegisteredIn(zone_id) ==
    {d \in DOMAIN devices :
        d \in DOMAIN active_dwells /\ active_dwells[d].zone_id = zone_id}

\* C14: a device removed from the registry has its active dwell closed and
\* its zone's occupancy decremented: no device absent from the registry has
\* an active DwellRecord or is counted in the occupancy of a zone
C14_RemovalClosesDwell ==
    /\ \A d \in DOMAIN active_dwells : d \in DOMAIN devices
    /\ \A z \in Zones : zone_occupancy[z] <= Cardinality(RegisteredIn(z))

----------------------------------------------------------------------------
(* Properties of cleanup_undetected_devices *)

\* a cleanup_undetected_devices call: the devices it removes were registered
\* in the previous cycle, not in the current one, and last detected more than
\* the grace period ago; it returns exactly the ids it removes, removes the
\* address mapping of each, and leaves the other devices and mappings alone
C15_CleanupStep ==
    CallCleanupUndetected =>
        LET removed == DOMAIN devices \ DOMAIN devices'
        IN /\ DOMAIN devices' \subseteq DOMAIN devices
           /\ \A d \in removed :
                 /\ d \in previous_scan_devices
                 /\ d \notin current_scan_devices
                 /\ now - devices[d].last_seen > GracePeriod
                 /\ \A m \in DOMAIN mac_to_id' : mac_to_id'[m] # d
           /\ \A d \in current_scan_devices \cap DOMAIN devices : d \in DOMAIN devices'
           /\ call'.ret = removed
           /\ \A d \in DOMAIN devices' : devices'[d] = devices[d]
           /\ \A m \in DOMAIN mac_to_id :
                 mac_to_id[m] \notin removed =>
                    (m \in DOMAIN mac_to_id' /\ mac_to_id'[m] = mac_to_id[m])

\* C15: cleanup_undetected_devices removes a device only if it was registered
\* in the previous scan cycle, has not been registered in the current one and
\* was last detected more than 5 seconds ago; a device registered in the
\* current cycle is never removed, the returned list holds exactly the removed
\* ids, and the address mapping of each removed device goes with it
C15_CleanupOnlyUndetected == [][C15_CleanupStep]_vars

\* a cleanup has removed a device and its mapping while a device registered
\* in the current cycle stays
C15_Witness ==
    /\ call.op = "cleanup_undetected_devices"
    /\ call.ret # {}
    /\ call.ret \cap DOMAIN devices = {}
    /\ current_scan_devices \cap DOMAIN devices # {}

----------------------------------------------------------------------------
(* Properties of the eviction of silent devices *)

\* the device is registered and has been silent for longer than the grace
\* period
Silent(device_id) ==
    /\ device_id \in DOMAIN devices
    /\ now - devices[device_id].last_seen > GracePeriod

\* C16: with start_new_scan and cleanup_undetected_devices run cycle after
\* cycle, a registered device that is not sighted again is removed once its
\* silence exceeds the grace period: no device stays registered and silent
\* beyond the grace period for ever
C16_SilentDeviceEvicted ==
    \A d \in DeviceIds : []<>(~Silent(d))

----------------------------------------------------------------------------
(* Properties of the sweep of idle trajectory buffers *)

\* a position update reaches the trajectory buffer of the device
BufferUpdated(device_id) ==
    /\ device_id \in DOMAIN active_points'
    /\ device_id \in DOMAIN active_points =>
          active_points'[device_id] # active_points[device_id]

\* C17: with the analysis task running, the buffer of a device that receives
\* no further position updates is eventually removed from active_points,
\* whatever the number of its points and whether or not the device is still
\* registered: a device keeps being without a buffer, or keeps receiving
\* position updates
C17_IdleBufferSwept ==
    \A d \in DeviceIds :
        \/ []<>(d \notin DOMAIN active_points)
        \/ []<><<BufferUpdated(d)>>_vars

----------------------------------------------------------------------------
(* Properties of short and finalized trajectories *)

\* a finalize_trajectory(d) call on a buffer of fewer than min_points points
\* returns none, stores nothing and leaves d without a buffer
C18_ShortStep ==
    (CallFinalizeTrajectory
       /\ call'.device_id \in DOMAIN active_points
       /\ Len(active_points[call'.device_id]) < min_points) =>
        /\ call'.ret = <<>>
        /\ trajectories' = trajectories
        /\ call'.device_id \notin DOMAIN active_points'

\* C18: finalize_trajectory(d) called while d has fewer than min_points
\* buffered points returns none without raising, stores no trajectory and
\* discards the buffered points of d, which has no active buffer afterwards
C18_ShortBufferDiscarded == [][C18_ShortStep]_vars

\* an add_position or finalize_trajectory step leaves every stored trajectory
\* as it was returned: add_position changes no trajectory and, for a device
\* without a buffer, starts a buffer holding the new point alone; a
\* finalize_trajectory leaves the trajectories of the other devices alone and
\* either returns none, changing nothing stored, or stores a new trajectory
\* made of the points buffered since, and leaves the device without a buffer
C19_FrameStep ==
    /\ CallAddPosition =>
          LET d == call'.device_id IN
          /\ trajectories' = trajectories
          /\ d \notin DOMAIN active_points =>
                /\ Len(active_points'[d]) = 1
                /\ active_points'[d][1].timestamp = now
    /\ CallFinalizeTrajectory =>
          LET d == call'.device_id IN
          /\ \A e \in DOMAIN trajectories :
                (e # d \/ call'.ret = <<>>) =>
                    (e \in DOMAIN trajectories' /\ trajectories'[e] = trajectories[e])
          /\ call'.ret # <<>> =>
                /\ call'.ret[1].points = Buffered(d)
                /\ d \notin DOMAIN active_points'

\* C19: once finalize_trajectory(d) has returned a trajectory T, no later
\* add_position or finalize_trajectory call, for d or another device, changes
\* the points, start_time, end_time or zones_visited of T, and the positions
\* added for d afterwards go into a fresh buffer
C19_FinalizedImmutable == [][C19_FrameStep]_vars

\* a position added for a device after its trajectory was finalized is alone
\* in a fresh buffer, the stored trajectory keeping the points it had
C19_Witness ==
    \E d \in TrajDevices :
        /\ call.op = "add_position"
        /\ call.device_id = d
        /\ d \in DOMAIN trajectories
        /\ Len(trajectories[d].points) >= min_points
        /\ d \in DOMAIN active_points
        /\ Len(active_points[d]) = 1


\* C20: every trajectory finalize_trajectory produces, after any sequence of
\* add_position calls, has start_time <= the timestamp of each of its
\* samples <= end_time
C20_SamplesWithinSpan ==
    \A d \in DOMAIN trajectories :
        \A i \in 1..Len(trajectories[d].points) :
            /\ trajectories[d].start_time <= trajectories[d].points[i].timestamp
            /\ trajectories[d].points[i].timestamp <= trajectories[d].end_time

----------------------------------------------------------------------------
(* Properties of the recorded transitions *)

\* an add_transition call from a zone to itself changes nothing recorded
SelfTransitionIgnored ==
    (CallAddTransition /\ call'.from_zone = call'.to_zone) =>
        UNCHANGED <<transitions, flow_matrix, transition_durations, device_paths>>

\* no recorded FlowTransition and no key of the flow matrix goes from a zone
\* to itself
NoSelfTransition ==
    /\ \A i \in 1..Len(transitions) : transitions[i].from_zone # transitions[i].to_zone
    /\ \A key \in Keys(flow_matrix) : key[1] # key[2]

\* C21: add_transition with from_zone equal to to_zone leaves the transition
\* list, the flow matrix, the duration samples and the device paths
\* unchanged, so that after any add_transition and update_device_zone calls
\* no recorded transition and no flow-matrix key has equal zones
C21_NoSelfTransitions == [][SelfTransitionIgnored]_vars /\ [](NoSelfTransition)

\* an add_transition from a zone to itself has been made after transitions
\* were recorded by add_transition and by update_device_zone
C21_Witness ==
    /\ call.op = "add_transition"
    /\ call.from_zone = call.to_zone
    /\ Len(transitions) >= 2
    /\ updates # <<>>
    /\ \E i \in 1..Len(transitions) : transitions[i].device_id = "h2"


\* a history of update_device_zone calls that all report a zone
AllGiven(h) == \A i \in 1..Len(h) : h[i][1] # None

\* the updates of a history that report another zone than the update before
Changes(h) == {i \in 2..Len(h) : h[i][1] # h[i - 1][1]}

\* the n-th of them
ChangeAt(h, n) ==
    CHOOSE i \in Changes(h) : Cardinality({j \in Changes(h) : j <= i}) = n

\* the first update of the stay the i-th update belongs to
StayStart(h, i) ==
    CHOOSE j \in 1..i :
        /\ \A k \in j..i : h[k][1] = h[i][1]
        /\ j > 1 => h[j - 1][1] # h[i][1]

\* C22: for any sequence of update_device_zone calls of one device, repeated
\* reports of the zone it is in included, each change of zone records one
\* transition, stamped with the time of the change, whose duration is that
\* time minus the time of the first update of the stay in the zone left
C22_DurationFromStayStart ==
    \A d \in DOMAIN updates :
        LET h == updates[d] IN
        AllGiven(h) =>
            /\ Len(TransitionsOf(d)) = Cardinality(Changes(h))
            /\ \A n \in 1..Len(TransitionsOf(d)) :
                  LET i == ChangeAt(h, n) IN
                  /\ TransitionsOf(d)[n].timestamp = h[i][2]
                  /\ TransitionsOf(d)[n].duration = h[i][2] - h[StayStart(h, i - 1)][2]

----------------------------------------------------------------------------
(* Properties of the position estimates *)

\* the filter states an estimate reads or changes are states created by
\* estimates of the same device
EstimateOwnFilter ==
    EstimateDevice /\ algorithm = "kalman" =>
        \A k \in DOMAIN kalman_states' :
            (\/ k = call'.key
             \/ k \notin DOMAIN kalman_states
             \/ kalman_states'[k] # kalman_states[k])
                => filter_owner'[k] = call'.mac

\* C23: under the Kalman strategy the filter state is kept per device: an
\* estimate computed for one device never reads or changes the filter state
\* of a different device, whichever receivers reported the two devices
C23_FilterStatePerDevice == [][EstimateOwnFilter]_vars

\* C24: a filter state is created on the first estimate for a device,
\* persists across scan cycles and is deleted when the device is removed from
\* the registry: no stored filter state belongs to a device that is not in
\* the registry
C24_NoFilterForRemovedDevice ==
    \A k \in DOMAIN kalman_states :
        \E d \in DOMAIN devices : devices[d].hw = filter_owner[k]

\* C25: calculate_position given at least one but fewer than min_receivers
\* measurements returns a position, and the weighted centroid of every
\* non-empty measurement list is a position
C25_FewReceiversFallBack ==
    /\ \A measurements \in MeasurementLists : _weighted_centroid(measurements)[3] > 0
    /\ (/\ call.op = "calculate_position"
        /\ Len(call.measurements) >= 1
        /\ Len(call.measurements) < min_receivers)
           => call.ret # <<>>

\* C26: when the optimizer of the trilateration reports non-convergence for
\* at least min_receivers measurements, calculate_position returns the
\* weighted centroid of those measurements
C26_NonConvergenceFallsBack ==
    (/\ call.op = "calculate_position"
     /\ Len(call.measurements) >= min_receivers
     /\ call.outcome # <<>>
     /\ ~call.outcome[1].success)
        => call.ret = <<_clip_to_facility(_weighted_centroid(call.measurements))>>

----------------------------------------------------------------------------
(* Properties of the position history *)

\* the last n elements of a list
LastOf(s, n) == SubSeq(s, Len(s) - Min(Len(s), n) + 1, Len(s))

\* the positions of a position history, oldest first
HistoryPositions(device_id) ==
    [i \in 1..Len(devices[device_id].position_history) |->
        devices[device_id].position_history[i][2]]

\* an update_position call for an id that is not registered changes nothing
UnknownIgnored ==
    CallUpdatePosition /\ call'.device_id \notin DOMAIN devices =>
        UNCHANGED <<regVars, exceptRegistry>>

----------------------------------------------------------------------------
(* Properties of a failed flush *)

\* the failure of the flush of a flusher leaves the buffer as it is, counts
\* an error, raises nothing in the task that awaits it and leaves every
\* record of its session in the buffer, from where the next flush takes it
\* (unless a flush that overlapped it has written the record meanwhile)
FailedFlushKept ==
    \A flusher \in DOMAIN sessions :
        CommitFailed /\ call'.flusher = flusher =>
            /\ position_buffer' = position_buffer
            /\ db_errors' = db_errors + 1
            /\ scan_task.pc # "backoff" => scan_task'.pc # "backoff"
            /\ Range(sessions[flusher]) \subseteq Range(position_buffer') \cup Range(written)

\* C29: if a flush of the position buffer fails, the buffer content is
\* unchanged, db_errors is incremented, no exception reaches the caller of
\* save_position or the periodic flush loop, and the same records are
\* attempted again at the next flush
C29_FailedFlushRetried == [][FailedFlushKept]_vars

\* C30: save_position returns to the ingesting task without waiting for any
\* flush to complete, for every buffer size including batch_size reached: the
\* scan task is never suspended inside save_position while the commit of the
\* flush save_position began is pending
C30_SaveDoesNotWait ==
    ~(scan_task.pc = "flush" /\ "save_position" \in DOMAIN sessions)

----------------------------------------------------------------------------
(* Properties of the scanning loop *)

\* an iteration of the scanning loop has raised and no iteration has begun since
IterationFailed == scan_task.failed # None /\ call.op \notin {"scan", "scan_error"}

\* an iteration of the scanning loop begins
IterationBegun == call.op \in {"scan", "scan_error"}

\* C28: an exception raised in one iteration of the scanning loop (scanner or
\* processing failure) is caught there: the loop waits and then runs another
\* iteration for as long as is_running is true, and the other periodic tasks
\* are not cancelled
C28_ScanLoopSurvivesFailure ==
    /\ (IterationFailed /\ is_running) ~> (IterationBegun \/ ~is_running)
    /\ [](scan_task.failed # None /\ is_running =>
             /\ scan_task.pc = "backoff"
             /\ ENABLED AnalysisLoop
             /\ ENABLED MaintenanceLoop)

\* the processing of a device has raised, the loop is in the sleep of its
\* handler and the analysis task has run since
C28_Witness ==
    /\ is_running
    /\ scan_task.pc = "backoff"
    /\ scan_task.failed \in Macs
    /\ call.op = "analysis"

----------------------------------------------------------------------------
(* Properties of the persistence of positions *)

\* a position handed to save_position is in the buffer when the call returns
\* or suspends
HandedPositionKept ==
    CallSavePosition =>
        /\ accepted' = accepted + 1
        /\ \E i \in 1..Len(position_buffer') :
              /\ position_buffer'[i].seq = accepted'
              /\ position_buffer'[i].device_id = call'.device_id

\* C31: when the sink is not connected, a position produced by ingestion is
\* kept in the buffer for a later retry and is not discarded
C31_DisconnectedPositionKept == [][HandedPositionKept]_vars

\* C35: each position accepted by save_position is written to the database
\* at most once, also when a periodic flush and a size-triggered flush of the
\* buffer overlap at an await
C35_WrittenAtMostOnce ==
    \A i, j \in 1..Len(written) : written[i].seq = written[j].seq => i = j

----------------------------------------------------------------------------
(* Properties of the address map *)

\* C32: in every state reachable through register_device, start_new_scan,
\* cleanup_undetected_devices and cleanup_old_devices, with anonymization on
\* or off, every value of mac_to_id is the id of a Device in the registry
C32_AddressMapPointsToDevices ==
    \A mac \in DOMAIN mac_to_id : mac_to_id[mac] \in DOMAIN devices

----------------------------------------------------------------------------
(* Properties of the occupancy counters *)

\* the devices whose active dwell is in a zone
ActiveIn(zone_id) ==
    {d \in DOMAIN active_dwells : active_dwells[d].zone_id = zone_id}

\* C33: after any sequence of enter_zone, exit_zone and update_position
\* calls, including exit_zone called with a zone different from the device's
\* active zone, the occupancy counter of every zone equals the number of
\* devices whose active dwell is in that zone, and is never negative
C33_OccupancyCountsActiveDwells ==
    \A z \in Zones :
        /\ zone_occupancy[z] >= 0
        /\ zone_occupancy[z] = Cardinality(ActiveIn(z))

----------------------------------------------------------------------------
(* Properties of the fan-out of a position update *)

ZonesAgree(device_id) ==
    IF device_id \in DOMAIN active_dwells
    THEN devices[device_id].current_zone = active_dwells[device_id].zone_id
    ELSE devices[device_id].current_zone = None

\* C37: after every fan-out of a position update for a registered device,
\* with zone z possibly none, the current_zone of the device is z exactly when
\* the device has an active dwell in z, and is none exactly when the device
\* has no active dwell
C37_RegistryAndDwellAgree ==
    call.op = "update_device_position" /\ call.device_id \in DOMAIN devices =>
        /\ ZonesAgree(call.device_id)
        /\ devices[call.device_id].current_zone = call.zone_id

----------------------------------------------------------------------------
(* Properties of the stored dwell records *)

\* a stored record is closed, with the duration between its entry and its
\* exit, which reaches the minimum
StoredRecordClosed(r) ==
    /\ ~r.is_active
    /\ r.exit_time # NoTime
    /\ r.duration = r.exit_time - r.entry_time
    /\ r.duration >= min_dwell_time

\* an exit_zone call that closes a dwell shorter than the minimum stores
\* nothing and returns None, and the dwell is no longer active
ShortExitDiscarded ==
    \A d \in DOMAIN active_dwells :
        (/\ CallExitZone(AnalyzerDevices, Zones)
         /\ call'.device_id = d
         /\ call'.timestamp - active_dwells[d].entry_time < min_dwell_time)
            => /\ dwell_records' = dwell_records
               /\ call'.ret = <<>>
               /\ d \notin DOMAIN active_dwells'

\* C38: after any sequence of enter_zone, exit_zone and update_position calls
\* every DwellRecord stored in the list of a zone is inactive, has an exit
\* time, has duration = exit_time - entry_time and duration >= min_duration;
\* an exit whose duration is below min_duration stores nothing and returns
\* none while still removing the active dwell
C38_StoredDwellsClosed ==
    /\ [](\A z \in Zones : \A i \in 1..Len(dwell_records[z]) :
             StoredRecordClosed(dwell_records[z][i]))
    /\ [][ShortExitDiscarded]_vars

\* a record is stored and the last call was an exit that discarded a short
\* dwell
C38_Witness ==
    /\ \E z \in Zones : dwell_records[z] # <<>>
    /\ call.op = "exit_zone"
    /\ call.closed
    /\ call.ret = <<>>
    /\ call.device_id \notin DOMAIN active_dwells

----------------------------------------------------------------------------
(* Properties of the frame of add_position *)

\* an add_position call for device d appends one point to the buffer of d and
\* leaves the earlier points of d, the buffers of the other devices and the
\* finalized trajectories as they were
AddPositionFrame ==
    CallAddPosition =>
        LET d == call'.device_id
            before == Buffered(d)
        IN /\ d \in DOMAIN active_points'
           /\ Len(active_points'[d]) = Len(before) + 1
           /\ \A i \in 1..Len(before) : active_points'[d][i] = before[i]
           /\ active_points'[d][Len(before) + 1].device_id = d
           /\ active_points'[d][Len(before) + 1].timestamp = now
           /\ \A e \in TrajDevices \ {d} :
                 /\ e \in DOMAIN active_points' <=> e \in DOMAIN active_points
                 /\ e \in DOMAIN active_points => active_points'[e] = active_points[e]
           /\ trajectories' = trajectories

\* C39: each add_position(d, ...) call lengthens d's active buffer by exactly
\* one point and may change only that newest point (its smoothed position,
\* speed and direction); every previously buffered point of d and every other
\* device's buffer and finalized trajectory are unchanged
C39_AddPositionTouchesNewestOnly == [][AddPositionFrame]_vars

\* a position was added to a buffer that held a point, the smoothing having
\* moved the new point, while another device has a buffer or a trajectory
C39_Witness ==
    \E d \in TrajDevices :
        /\ call.op = "add_position"
        /\ call.device_id = d
        /\ d \in DOMAIN active_points
        /\ Len(active_points[d]) >= smoothing_window
        /\ active_points[d][Len(active_points[d])].position \notin Positions
        /\ \E e \in TrajDevices \ {d} :
              e \in DOMAIN active_points \/ e \in DOMAIN trajectories

----------------------------------------------------------------------------
(* Properties of the flow matrix *)

\* the count of the flow matrix for a pair of zones, 0 when it has no entry
MatrixCount(pair) ==
    IF pair \in Keys(flow_matrix) THEN Lookup(flow_matrix, pair) ELSE 0

\* the number of recorded FlowTransitions between a pair of zones
RecordedCount(pair) ==
    LET Between(t) == t.from_zone = pair[1] /\ t.to_zone = pair[2]
    IN Len(SelectSeq(transitions, Between))

\* the number of duration samples of a pair of zones
SampleCount(pair) ==
    IF pair \in DOMAIN transition_durations THEN Len(transition_durations[pair]) ELSE 0

\* C40: after any sequence of add_transition and update_device_zone calls,
\* for every pair of zones (f, t) the flow-matrix count equals the number of
\* recorded FlowTransitions from f to t and equals the number of duration
\* samples stored for (f, t)
C40_MatrixCountsTransitions ==
    \A pair \in FlowZones \X FlowZones :
        /\ MatrixCount(pair) = RecordedCount(pair)
        /\ MatrixCount(pair) = SampleCount(pair)

\* a pair of zones between which a transition was recorded by add_transition
\* and another by update_device_zone, a transition the other way being
\* recorded as well
C40_Witness ==
    /\ MatrixCount(<<"A", "B">>) >= 2
    /\ MatrixCount(<<"B", "A">>) >= 1
    /\ \E i, j \in 1..Len(transitions) :
          /\ transitions[i].device_id = "h1"
          /\ transitions[j].device_id = "h2"
          /\ transitions[i].from_zone = "A" /\ transitions[i].to_zone = "B"
          /\ transitions[j].from_zone = "A" /\ transitions[j].to_zone = "B"

----------------------------------------------------------------------------
(* Properties of the finalization of trajectories by the analysis task *)

\* every device a step of the analysis task calls finalize_trajectory for is
\* idle when the call is made: get_active_devices would not return it
FinalizedWhileIdle ==
    (AnalysisBegin \/ AnalysisResume) =>
        \A d \in call'.finalize_calls :
            d \notin get_active_devices(Registry, ActiveMinutes)

====
